---- MODULE Spec2Model ----
(***************************************************************************)
(* A model of the document acquisition pipeline and of the record merge    *)
(* engine of MIDA (Missioni Internazionali e Dati Analitici).              *)
(*                                                                         *)
(*   SpecFetch    SmartDocumentFetcher: one collector downloading the      *)
(*                discovered document URLs one after the other, with       *)
(*                retries, Wayback fallback and the hash-named store.      *)
(*   SpecRace     two workers inside _save_file on one output directory.   *)
(*   SpecMerge    DataMerger.merge: normalise, deduplicate, enrich.        *)
(*   SpecExtract  the _estrai_dati_da_testo variants of the scrapers.      *)
(*   SpecNormalize  _pulisci_dati_missione on one extracted mission.       *)
(*   SpecFuzzy    merge_excel: trova_duplicati and the loop of unisci_dati *)
(*                over the master workbook.                                *)
(*   SpecClassify  classifica_missione on one row of the dataset.          *)
(*   SpecRun      main of scripts/main.py: the scrapers, the loop over the *)
(*                sources with validation, and the final dataset.          *)
(*   SpecValida   DataValidator.valida_dataframe on a frame that has the   *)
(*                date, personnel and cost columns.                        *)
(*   SpecCollect  SmartDocumentFetcher.collect: the sitemaps and the index *)
(*                pages, their links, and the downloads of SpecFetch.      *)
(***************************************************************************)
EXTENDS Integers, Sequences, FiniteSets, TLC

VARIABLES
    \* ---- SmartDocumentFetcher (sequential collector) ----
    store,          \* output directory: file name -> bytes
    fpc,            \* position inside _download_with_retry
    url,            \* the url argument of the running call
    attempt,        \* the loop variable of _download_with_retry
    reqs,           \* requests of the running call, in order, with their answers
    slept,          \* the delays the running call has slept, in order
    wrote,          \* did the running call write a file
    result,         \* the return value of the running call (<<>> is None)
    metadata_list,  \* what the caller has collected so far
    nfetch,         \* calls of _download_with_retry started so far
    max_retries,    \* self.max_retries, from the configuration
    \* ---- two workers in _save_file ----
    wpc, wurl, wcontent, woff, wresult, nwrites,
    \* ---- DataMerger ----
    mpc, dati, dati_in,
    \* ---- the scrapers' text extraction ----
    xpc, scraper, testo, lang, estratti,
    \* ---- _pulisci_dati_missione ----
    npc, pulitore, missione_in, missione,
    \* ---- merge_excel ----
    upc,            \* position inside unisci_dati
    celle,          \* what the cells of df_originale hold
    df_scraped, df_originale,
    duplicati,      \* per scraped row its riga_originale (from 1), 0 when it is no duplicate
    ws,             \* the data rows of the worksheet, ws[k] is Excel row k + 1
    idx,            \* the loop variable of unisci_dati (from 1)
    \* ---- classifica_dataset ----
    kpc, riga, tipologia,
    \* ---- main ----
    rpc,            \* position inside main
    campi_obbligatori, \* config['validazione']['campi_obbligatori']
    costruiti,      \* scrapers built so far
    ri,             \* position of the loop in scrapers.items() (from 1)
    df,             \* the frame returned by estrai_dati in this pass
    esito,          \* per source: "", "raised", "invalid" or "valid"
    chiamate,       \* the sources whose estrai_dati was called, in order
    dati_completi, df_finale,
    \* ---- DataValidator ----
    vpc,            \* position: "valida" before the call, "done" after
    formati_data,   \* config['validazione']['formati_data']
    missioni,       \* the frame handed to valida_dataframe
    validita,       \* "valid", "invalid", or "raises" for an exception
    \* ---- SmartDocumentFetcher.collect ----
    cpc,            \* position inside collect
    seeds,          \* sitemap_urls followed by indice_urls, with what each answers
    si,             \* the seed being processed (from 1)
    li,             \* the entry of the seed being handled (from 1)
    visti,          \* the seeds whose request was made, in order
    tentati,        \* <<seed, entry>> of every call of _download_with_retry
    errori,         \* the seeds that logged an [ERROR]
    all_metadata

fetchVars == <<store, fpc, url, attempt, reqs, slept, wrote, result, metadata_list, nfetch, max_retries>>
raceVars == <<wpc, wurl, wcontent, woff, wresult, nwrites>>
mergeVars == <<mpc, dati, dati_in>>
extractVars == <<xpc, scraper, testo, lang, estratti>>
normVars == <<npc, pulitore, missione_in, missione>>
earlyVars == <<fetchVars, raceVars, mergeVars, extractVars>>
fuzzyVars == <<upc, celle, df_scraped, df_originale, duplicati, ws, idx>>
classVars == <<kpc, riga, tipologia>>
runVars == <<rpc, campi_obbligatori, costruiti, ri, df, esito, chiamate, dati_completi, df_finale>>
validaVars == <<vpc, formati_data, missioni, validita>>
collectVars == <<cpc, seeds, si, li, visti, tentati, errori, all_metadata>>
lastVars == <<validaVars, collectVars>>
laterVars == <<normVars, fuzzyVars, classVars, runVars, lastVars>>
vars == <<earlyVars, laterVars>>

-----------------------------------------------------------------------------
(* Bounds of the model *)

\* calls of _download_with_retry in one run of the collector
MaxFetches == 2
\* records in the input directory of one merge
MaxRecords == 3
\* lines of a document's text
MaxLines == 2

(* Program constants *)

\* config.get('max_retries', 3): the default
default_max_retries == 3
\* config.get('retry_delay', 5)
retry_delay == 5

-----------------------------------------------------------------------------
(* Values *)

\* Python's None for an Optional[Dict] return value; a dict d is <<d>>
None == <<>>
Some(d) == <<d>>

\* response bodies: byte strings
Contents == { <<1, 2>>, <<3, 4>> }

\* Discovered document links.  Each passed _is_document_url, so the URL
\* ends, up to letter case, with an allowed extension.
Urls ==
    { [netloc |-> "www.difesa.it", stem |-> "/doc/a", suffix |-> ".pdf"],
      [netloc |-> "www.esteri.it", stem |-> "/doc/b", suffix |-> ".PDF"],
      [netloc |-> "www.senato.it", stem |-> "/doc/c", suffix |-> ".doc"] }

NoUrl == [netloc |-> "", stem |-> "", suffix |-> ""]

\* str.lower() on the strings that occur
Lower(s) ==
    CASE s = ".PDF" -> ".pdf"
      [] s = ".DOC" -> ".doc"
      [] s = ".DOCX" -> ".docx"
      [] s = "EUTM Mali" -> "eutm mali"
      [] s \in {"Mali", "MALI"} -> "mali"
      [] s = "Mission" -> "mission"
      [] s = "Country" -> "country"
      [] s = "Pays" -> "pays"
      [] s = "Start Date" -> "start date"
      [] s = "End Date" -> "end date"
      [] s = "Total Personnel" -> "total personnel"
      [] s = "Total Cost" -> "total cost"
      [] s = "Mission Type" -> "mission type"
      [] s = "Mandate" -> "mandate"
      [] s = "Date de debut" -> "date de debut"
      [] s = "Date de fin" -> "date de fin"
      [] s = "Personnel total" -> "personnel total"
      [] s = "Cout total" -> "cout total"
      [] s = "Type de mission" -> "type de mission"
      [] s = "Mandat" -> "mandat"
      [] OTHER -> s

allowed_extensions == { ".pdf", ".doc", ".docx" }

\* a variant that takes every URL for a document
IsDocumentUrlAny(u) == TRUE

\* url.lower().endswith(ext) for some allowed ext
IsDocumentUrl(u) == Lower(u.suffix) \in allowed_extensions

\* hashlib.sha256(content).hexdigest(): an abstract digest, one per byte
\* string (SHA-256 is taken to be collision free on the bodies modelled)
HashContent(content) == <<"sha256", content>>

\* content_hash[:12]: the first twelve hex digits of the digest, taken to
\* be distinct for distinct digests of the bodies modelled
Prefix12(digest) == <<"hex12", digest[2]>>

\* os.path.splitext(url)[1].lower()
ExtOf(u) == Lower(u.suffix)

\* f"{content_hash[:12]}{ext}"
FileName(content, u) == [hash |-> Prefix12(HashContent(content)), ext |-> ExtOf(u)]

Metadata(content, u) ==
    [ filename |-> FileName(content, u),
      original_url |-> u,
      file_size |-> Len(content),
      content_hash |-> HashContent(content),
      source_domain |-> u.netloc ]

\* the file system after open(filepath, 'wb'); f.write(content); close
WriteFile(st, name, content) ==
    [ f \in (DOMAIN st) \cup {name} |-> IF f = name THEN content ELSE st[f] ]

\* os.path.exists(filepath)
Exists(st, name) == name \in DOMAIN st

\* a variant of _save_file without the os.path.exists test
SaveFileAlwaysWrite(st, content, u) ==
    [store |-> WriteFile(st, FileName(content, u), content),
     result |-> Some(Metadata(content, u)), wrote |-> TRUE]

\* _save_file: the new file system, the return value, and whether it wrote
SaveFile(st, content, u) ==
    IF ~Exists(st, FileName(content, u))
    THEN [store |-> WriteFile(st, FileName(content, u), content),
          result |-> Some(Metadata(content, u)), wrote |-> TRUE]
    ELSE [store |-> st, result |-> None, wrote |-> FALSE]

\* the sequences over S of length at most n
RECURSIVE SeqsUpTo(_, _)
SeqsUpTo(S, n) ==
    IF n = 0 THEN { << >> }
    ELSE LET shorter == SeqsUpTo(S, n - 1) IN
         shorter \cup { Append(q, x) : q \in { r \in shorter : Len(r) = n - 1 }, x \in S }

\* What session.get can give: a response with a status code (and, for a
\* 200, a body), or an httpx.RequestError (timeout, connection error).
StatusCodes == { 200, 403, 404, 410, 500 }
NoContent == <<>>
Responses ==
    { [kind |-> "response", status |-> 200, content |-> c] : c \in Contents }
    \cup { [kind |-> "response", status |-> s, content |-> NoContent] :
              s \in StatusCodes \ {200} }
    \cup { [kind |-> "RequestError", status |-> 0, content |-> NoContent] }

Request(kind, r) == [req |-> kind, kind |-> r.kind, status |-> r.status, content |-> r.content]

-----------------------------------------------------------------------------
(* SmartDocumentFetcher._download_with_retry, called from the loops of     *)
(* _extract_from_sitemap and _extract_from_html                            *)

\* the values of max_retries that a configuration gives: none (the
\* default) or one more attempt
MaxRetriesConfig == { default_max_retries, default_max_retries + 1 }

\* a collector after __init__, but for its max_retries
FetchReady ==
    /\ store = << >>
    /\ fpc = "idle"
    /\ url = NoUrl
    /\ attempt = 0
    /\ reqs = << >>
    /\ slept = << >>
    /\ wrote = FALSE
    /\ result = None
    /\ metadata_list = << >>
    /\ nfetch = 0

FetchIdle == FetchReady /\ max_retries = default_max_retries

\* for link in links: if self._is_document_url(link): ... _download_with_retry
StartDownload(u) ==
    /\ fpc = "idle"
    /\ nfetch < MaxFetches
    /\ IsDocumentUrl(u)
    /\ url' = u
    /\ attempt' = 0
    /\ reqs' = << >>
    /\ slept' = << >>
    /\ wrote' = FALSE
    /\ result' = None
    /\ nfetch' = nfetch + 1
    /\ fpc' = IF 0 < max_retries THEN "get" ELSE "return"
    /\ UNCHANGED <<store, metadata_list, max_retries>>

\* a variant that takes the fallback one pass early
AfterFailureEarly(r) ==
    IF r.kind = "RequestError" \/ r.status \in {403, 404, 410}
    THEN IF attempt = max_retries - 2 THEN "wayback" ELSE "sleep"
    ELSE "sleep"

\* where the loop body goes after an answer that is not a 200
AfterFailure(r) ==
    IF r.kind = "RequestError" \/ r.status \in {403, 404, 410}
    THEN IF attempt = max_retries - 1 THEN "wayback" ELSE "sleep"
    ELSE "sleep"

\* one pass of the loop body up to its network call's answer
DirectGet(r) ==
    /\ fpc = "get"
    /\ reqs' = Append(reqs, Request("direct", r))
    /\ IF r.kind = "response" /\ r.status = 200
       THEN LET s == SaveFile(store, r.content, url) IN
            /\ store' = s.store
            /\ result' = s.result
            /\ wrote' = s.wrote
            /\ fpc' = "return"
       ELSE /\ fpc' = AfterFailure(r)
            /\ UNCHANGED <<store, result, wrote>>
    /\ UNCHANGED <<url, attempt, slept, metadata_list, nfetch, max_retries>>

\* a variant whose loop variable does not advance
SleepSameAttempt ==
    /\ fpc = "sleep"
    /\ slept' = Append(slept, retry_delay * (attempt + 1))
    /\ attempt' = attempt
    /\ fpc' = IF attempt + 1 < max_retries THEN "get" ELSE "return"
    /\ result' = None
    /\ UNCHANGED <<store, url, reqs, wrote, metadata_list, nfetch, max_retries>>

\* time.sleep(self.retry_delay * (attempt + 1)), then the next pass or,
\* when the range is exhausted, the final return None
Sleep ==
    /\ fpc = "sleep"
    /\ slept' = Append(slept, retry_delay * (attempt + 1))
    /\ attempt' = attempt + 1
    /\ fpc' = IF attempt + 1 < max_retries THEN "get" ELSE "return"
    /\ result' = None
    /\ UNCHANGED <<store, url, reqs, wrote, metadata_list, nfetch, max_retries>>

\* a variant that saves the body of every answer of the archive
TryWaybackMachineAnyStatus(r) ==
    /\ fpc = "wayback"
    /\ reqs' = Append(reqs, Request("archive", r))
    /\ IF r.kind = "response"
       THEN LET s == SaveFile(store, r.content, url) IN
            /\ store' = s.store
            /\ result' = s.result
            /\ wrote' = s.wrote
       ELSE /\ result' = None
            /\ UNCHANGED <<store, wrote>>
    /\ fpc' = "return"
    /\ UNCHANGED <<url, attempt, slept, metadata_list, nfetch, max_retries>>

\* _try_wayback_machine
TryWaybackMachine(r) ==
    /\ fpc = "wayback"
    /\ reqs' = Append(reqs, Request("archive", r))
    /\ IF r.kind = "response" /\ r.status = 200
       THEN LET s == SaveFile(store, r.content, url) IN
            /\ store' = s.store
            /\ result' = s.result
            /\ wrote' = s.wrote
       ELSE /\ result' = None
            /\ UNCHANGED <<store, wrote>>
    /\ fpc' = "return"
    /\ UNCHANGED <<url, attempt, slept, metadata_list, nfetch, max_retries>>

\* back in the caller: if metadata: metadata_list.append(metadata)
Return ==
    /\ fpc = "return"
    /\ metadata_list' = IF result # None THEN metadata_list \o result ELSE metadata_list
    /\ fpc' = "idle"
    /\ UNCHANGED <<store, url, attempt, reqs, slept, wrote, result, nfetch, max_retries>>

RaceIdle ==
    /\ wpc = [w \in {1, 2} |-> "done"]
    /\ wurl = [w \in {1, 2} |-> NoUrl]
    /\ wcontent = [w \in {1, 2} |-> NoContent]
    /\ woff = [w \in {1, 2} |-> 0]
    /\ wresult = [w \in {1, 2} |-> None]
    /\ nwrites = 0

MergeIdle ==
    /\ mpc = "idle"
    /\ dati = << >>
    /\ dati_in = << >>

ExtractIdle ==
    /\ xpc = "idle"
    /\ scraper = ""
    /\ testo = << >>
    /\ lang = ""
    /\ estratti = << >>

NormIdle ==
    /\ npc = "idle"
    /\ pulitore = ""
    /\ missione_in = << >>
    /\ missione = << >>

EarlyIdle == FetchIdle /\ RaceIdle /\ MergeIdle /\ ExtractIdle

FuzzyIdle ==
    /\ upc = "idle"
    /\ celle = ""
    /\ df_scraped = << >>
    /\ df_originale = << >>
    /\ duplicati = << >>
    /\ ws = << >>
    /\ idx = 0

ClassIdle ==
    /\ kpc = "idle"
    /\ riga = << >>
    /\ tipologia = ""

RunIdle ==
    /\ rpc = "idle"
    /\ campi_obbligatori = {}
    /\ costruiti = 0
    /\ ri = 0
    /\ df = << >>
    /\ esito = << >>
    /\ chiamate = << >>
    /\ dati_completi = << >>
    /\ df_finale = << >>

ValidaIdle ==
    /\ vpc = "idle"
    /\ formati_data = << >>
    /\ missioni = << >>
    /\ validita = ""

CollectIdle ==
    /\ cpc = "idle"
    /\ seeds = << >>
    /\ si = 0
    /\ li = 0
    /\ visti = << >>
    /\ tentati = << >>
    /\ errori = << >>
    /\ all_metadata = << >>

LastIdle == ValidaIdle /\ CollectIdle

LaterIdle == NormIdle /\ FuzzyIdle /\ ClassIdle /\ RunIdle /\ LastIdle

InitFetch ==
    /\ FetchReady /\ max_retries \in MaxRetriesConfig
    /\ RaceIdle /\ MergeIdle /\ ExtractIdle /\ LaterIdle

NextFetch ==
    \/ \E u \in Urls : StartDownload(u) /\ UNCHANGED <<raceVars, mergeVars, extractVars, laterVars>>
    \/ \E r \in Responses : DirectGet(r) /\ UNCHANGED <<raceVars, mergeVars, extractVars, laterVars>>
    \/ Sleep /\ UNCHANGED <<raceVars, mergeVars, extractVars, laterVars>>
    \/ \E r \in Responses : TryWaybackMachine(r) /\ UNCHANGED <<raceVars, mergeVars, extractVars, laterVars>>
    \/ Return /\ UNCHANGED <<raceVars, mergeVars, extractVars, laterVars>>

SpecFetch == InitFetch /\ [][NextFetch]_vars

-----------------------------------------------------------------------------
(* Two workers inside SmartDocumentFetcher._save_file on one output        *)
(* directory. Each holds the bytes of its 200 answer and runs the test     *)
(* of os.path.exists, the open that creates or truncates the file, the     *)
(* writes that reach the file system, and the return.                      *)

Workers == {1, 2}

\* the bytes of a file after a write of one byte b at offset off (a write
\* past the end fills the gap with zero bytes)
PutByte(bytes, off, b) ==
    [ i \in 1..(IF Len(bytes) > off + 1 THEN Len(bytes) ELSE off + 1) |->
        IF i = off + 1 THEN b
        ELSE IF i <= Len(bytes) THEN bytes[i] ELSE 0 ]

\* if not os.path.exists(filepath): ... else: [SKIP] return None
SaveCheck(w) ==
    /\ wpc[w] = "check"
    /\ IF Exists(store, FileName(wcontent[w], wurl[w]))
       THEN /\ wpc' = [wpc EXCEPT ![w] = "done"]
            /\ wresult' = [wresult EXCEPT ![w] = None]
       ELSE /\ wpc' = [wpc EXCEPT ![w] = "open"]
            /\ UNCHANGED wresult
    /\ UNCHANGED <<store, wurl, wcontent, woff, nwrites>>

\* open(filepath, 'wb'): the file exists and is empty afterwards
SaveOpen(w) ==
    /\ wpc[w] = "open"
    /\ store' = WriteFile(store, FileName(wcontent[w], wurl[w]), << >>)
    /\ woff' = [woff EXCEPT ![w] = 0]
    /\ wpc' = [wpc EXCEPT ![w] = "write"]
    /\ UNCHANGED <<wurl, wcontent, wresult, nwrites>>

\* f.write(content) and the flush on leaving the with block, as the writes
\* of this worker's file object reach the file, each at the object's offset
SaveWrite(w) ==
    /\ wpc[w] = "write"
    /\ woff[w] < Len(wcontent[w])
    /\ LET name == FileName(wcontent[w], wurl[w]) IN
       store' = WriteFile(store, name,
                          PutByte(IF Exists(store, name) THEN store[name] ELSE << >>,
                                  woff[w], wcontent[w][woff[w] + 1]))
    /\ woff' = [woff EXCEPT ![w] = woff[w] + 1]
    /\ UNCHANGED <<wpc, wurl, wcontent, wresult, nwrites>>

\* the file is closed, [OK] is logged and the metadata returned
SaveReturn(w) ==
    /\ wpc[w] = "write"
    /\ woff[w] = Len(wcontent[w])
    /\ wpc' = [wpc EXCEPT ![w] = "done"]
    /\ wresult' = [wresult EXCEPT ![w] = Some(Metadata(wcontent[w], wurl[w]))]
    /\ nwrites' = nwrites + 1
    /\ UNCHANGED <<store, wurl, wcontent, woff>>

\* the output directory is empty or holds one document of an earlier run
InitRace ==
    /\ \E c \in Contents, u \in Urls :
          store \in { << >>, WriteFile(<< >>, FileName(c, u), c) }
    /\ fpc = "idle" /\ url = NoUrl /\ attempt = 0 /\ reqs = << >> /\ slept = << >> /\ wrote = FALSE
    /\ result = None /\ metadata_list = << >> /\ nfetch = 0 /\ max_retries = default_max_retries
    /\ wpc = [w \in Workers |-> "check"]
    /\ wurl \in [Workers -> Urls]
    /\ wcontent \in [Workers -> Contents]
    /\ woff = [w \in Workers |-> 0]
    /\ wresult = [w \in Workers |-> None]
    /\ nwrites = 0
    /\ MergeIdle /\ ExtractIdle /\ LaterIdle

raceFrame == <<fpc, url, attempt, reqs, slept, wrote, result, metadata_list, nfetch, max_retries, mergeVars, extractVars, laterVars>>

NextRace ==
    \/ \E w \in Workers : SaveCheck(w) /\ UNCHANGED raceFrame
    \/ \E w \in Workers : SaveOpen(w) /\ UNCHANGED raceFrame
    \/ \E w \in Workers : SaveWrite(w) /\ UNCHANGED raceFrame
    \/ \E w \in Workers : SaveReturn(w) /\ UNCHANGED raceFrame

SpecRace == InitRace /\ [][NextRace]_vars

-----------------------------------------------------------------------------
(* Strings and numbers of the Python library.  A text whose characters     *)
(* matter is the sequence of its characters, so that strip, split,         *)
(* replace, strptime, int and float work on it as the library does.        *)

\* the values of a mission dict: a string, an int, a float (n / 10^scale)
\* or no entry for the key
Str(s) == [t |-> "str", s |-> s, n |-> 0, scale |-> 0]
IntV(n) == [t |-> "int", s |-> << >>, n |-> n, scale |-> 0]
FloatV(n, k) == [t |-> "float", s |-> << >>, n |-> n, scale |-> k]
Absent == [t |-> "absent", s |-> << >>, n |-> 0, scale |-> 0]

DigitChars == << "0", "1", "2", "3", "4", "5", "6", "7", "8", "9" >>
Digits == { DigitChars[i] : i \in 1..10 }
DigitVal(c) == (CHOOSE i \in 1..10 : DigitChars[i] = c) - 1

\* str.strip()
StrStrip(s) ==
    LET ink == { i \in 1..Len(s) : s[i] # " " } IN
    IF ink = {} THEN << >>
    ELSE SubSeq(s, CHOOSE i \in ink : \A j \in ink : i <= j,
                   CHOOSE i \in ink : \A j \in ink : i >= j)

\* str.split(sep)
RECURSIVE Split(_, _)
Split(s, sep) ==
    IF \A i \in 1..Len(s) : s[i] # sep THEN << s >>
    ELSE LET k == CHOOSE i \in 1..Len(s) : s[i] = sep /\ \A j \in 1..(i - 1) : s[j] # sep
         IN << SubSeq(s, 1, k - 1) >> \o Split(SubSeq(s, k + 1, Len(s)), sep)

\* str.replace(old, new) for a one-character old
RECURSIVE Replace(_, _, _)
Replace(s, old, new) ==
    IF s = << >> THEN << >>
    ELSE (IF Head(s) = old THEN new ELSE << Head(s) >>) \o Replace(Tail(s), old, new)

AllDigits(s) == Len(s) > 0 /\ \A i \in 1..Len(s) : s[i] \in Digits

\* the number written by a string of digits
RECURSIVE ToInt(_)
ToInt(s) ==
    IF s = << >> THEN 0 ELSE ToInt(SubSeq(s, 1, Len(s) - 1)) * 10 + DigitVal(s[Len(s)])

\* n written with w digits, zero filled
RECURSIVE ZeroPad(_, _)
ZeroPad(n, w) ==
    IF w = 0 THEN << >> ELSE ZeroPad(n \div 10, w - 1) \o << DigitChars[(n % 10) + 1] >>

IsLeap(y) == (y % 4 = 0 /\ y % 100 # 0) \/ y % 400 = 0

DaysIn(m, y) ==
    CASE m \in {1, 3, 5, 7, 8, 10, 12} -> 31
      [] m \in {4, 6, 9, 11} -> 30
      [] OTHER -> IF IsLeap(y) THEN 29 ELSE 28

\* datetime.strptime(s, '%d/%m/%Y'): one or two digits, one or two digits
\* and four digits that name a day of the calendar, or ValueError
Strptime(s) ==
    LET p == Split(s, "/") IN
    IF /\ Len(p) = 3
       /\ AllDigits(p[1]) /\ Len(p[1]) <= 2
       /\ AllDigits(p[2]) /\ Len(p[2]) <= 2
       /\ AllDigits(p[3]) /\ Len(p[3]) = 4
       /\ ToInt(p[3]) >= 1
       /\ ToInt(p[2]) \in 1..12
       /\ ToInt(p[1]) \in 1..DaysIn(ToInt(p[2]), ToInt(p[3]))
    THEN [raises |-> FALSE, d |-> ToInt(p[1]), m |-> ToInt(p[2]), y |-> ToInt(p[3])]
    ELSE [raises |-> TRUE, d |-> 0, m |-> 0, y |-> 0]

\* a variant that writes the day before the month
StrftimeDayFirst(data) ==
    ZeroPad(data.y, 4) \o << "-" >> \o ZeroPad(data.d, 2) \o << "-" >> \o ZeroPad(data.m, 2)

\* data.strftime('%Y-%m-%d') (years of four digits)
Strftime(data) ==
    ZeroPad(data.y, 4) \o << "-" >> \o ZeroPad(data.m, 2) \o << "-" >> \o ZeroPad(data.d, 2)

\* int(s) for a string of digits, ValueError for the empty string
PyInt(s) ==
    IF AllDigits(s) THEN [raises |-> FALSE, n |-> ToInt(s)] ELSE [raises |-> TRUE, n |-> 0]

\* float(s) for the unsigned decimal literals: digits with at most one
\* point and at least one digit, white space around them ignored; anything
\* else over the characters modelled is a ValueError
PyFloat(s) ==
    LET p == Split(StrStrip(s), ".")
        digitsOrNone(x) == x = << >> \/ AllDigits(x)
    IN  IF Len(p) = 1 /\ AllDigits(p[1])
        THEN [raises |-> FALSE, n |-> ToInt(p[1]), scale |-> 0]
        ELSE IF /\ Len(p) = 2 /\ digitsOrNone(p[1]) /\ digitsOrNone(p[2])
                /\ (p[1] # << >> \/ p[2] # << >>)
        THEN [raises |-> FALSE, n |-> ToInt(p[1] \o p[2]), scale |-> Len(p[2])]
        ELSE [raises |-> TRUE, n |-> 0, scale |-> 0]

-----------------------------------------------------------------------------
(* DataMerger: _carica_dati, _normalizza_dati, _deduplica_dati,            *)
(* _arricchisci_dati, run in this order by merge                           *)

\* a key that the dict does not have
Missing == "<missing>"

\* dato.get(key, '')
Get(dato, key) == IF dato[key] = Missing THEN "" ELSE dato[key]

\* hashlib.md5(stringa.encode()).hexdigest(): an abstract digest, one per
\* string (MD5 is taken to be collision free on the strings modelled)
Md5(stringa) == <<"md5", stringa>>

\* _genera_id_univoco: the four values joined with '|', hashed
GeneraIdUnivoco(dato) ==
    Md5(Get(dato, "nome_missione") \o "|" \o Get(dato, "paese") \o "|"
        \o Get(dato, "data_inizio") \o "|" \o Get(dato, "fonte"))

\* the extraction timestamps that occur in the input files
Timestamps == { Missing, "2023-01-01", "2023-06-01", "n/d" }

\* pd.to_datetime(s): a timestamp (t is its day), NaT for the empty
\* string and for 'NaT', or an exception for a string that is no date
ToDatetime(s) ==
    CASE s \in {"2023-01-01", "2023-01-01T00:00:00"} -> [raises |-> FALSE, nat |-> FALSE, t |-> 20230101]
      [] s \in {"2023-06-01", "2023-06-01T00:00:00"} -> [raises |-> FALSE, nat |-> FALSE, t |-> 20230601]
      [] s \in {"2013-02-18", "2013-02-18T00:00:00"} -> [raises |-> FALSE, nat |-> FALSE, t |-> 20130218]
      [] s \in {"", "NaT"} -> [raises |-> FALSE, nat |-> TRUE, t |-> 0]
      [] OTHER -> [raises |-> TRUE, nat |-> FALSE, t |-> 0]

\* Timestamp.isoformat(); NaT.isoformat() is 'NaT'
IsoFormat(ts) ==
    CASE ts.nat -> "NaT"
      [] ts.t = 20230101 -> "2023-01-01T00:00:00"
      [] ts.t = 20230601 -> "2023-06-01T00:00:00"
      [] ts.t = 20130218 -> "2013-02-18T00:00:00"

\* a > b on pandas timestamps: False when either side is NaT
Later(a, b) == ~a.nat /\ ~b.nat /\ a.t > b.t

\* the date normalisation of one field: a present string that parses is
\* replaced by its ISO form, anything else is left as it is
NormalizzaData(v) ==
    IF v = Missing \/ ToDatetime(v).raises THEN v ELSE IsoFormat(ToDatetime(v))

\* the numeric normalisation of one field: float(v.replace(',', '')) for
\* a present string that it parses, anything else is left as it is
NormalizzaNumerico(v) ==
    LET f == PyFloat(Replace(v.s, ",", << >>)) IN
    IF v.t # "str" \/ f.raises THEN v ELSE FloatV(f.n, f.scale)

\* the body of the loop of _normalizza_dati for one record
NormalizzaDato(dato) ==
    [ dato EXCEPT !.id = GeneraIdUnivoco(dato),
                  !.data_inizio = NormalizzaData(dato.data_inizio),
                  !.data_estrazione = NormalizzaData(dato.data_estrazione),
                  !.costo_totale = NormalizzaNumerico(dato.costo_totale) ]

\* _normalizza_dati
NormalizzaDati(ds) == [ i \in 1..Len(ds) |-> NormalizzaDato(ds[i]) ]

\* the position in the dict (a list in insertion order) of the entry with
\* this id, 0 when there is none
IndexOfId(dict, id) ==
    IF \E i \in 1..Len(dict) : dict[i].id = id
    THEN CHOOSE i \in 1..Len(dict) : dict[i].id = id
    ELSE 0

\* a variant of the comparison that prefers the earlier record
IsMoreRecentFlipped(dato, stored) ==
    Later(ToDatetime(Get(stored, "data_estrazione")), ToDatetime(Get(dato, "data_estrazione")))

\* a variant of the comparison that also replaces on equal timestamps
IsMoreRecentOrEqual(dato, stored) ==
    LET a == ToDatetime(Get(dato, "data_estrazione"))
        b == ToDatetime(Get(stored, "data_estrazione"))
    IN  ~a.nat /\ ~b.nat /\ a.t >= b.t

\* pd.to_datetime(dato.get('data_estrazione', '')) >
\*     pd.to_datetime(dati_dict[id_dato].get('data_estrazione', ''))
IsMoreRecent(dato, stored) ==
    Later(ToDatetime(Get(dato, "data_estrazione")), ToDatetime(Get(stored, "data_estrazione")))

\* a variant that stores every record it meets
DeduplicaStepKeepAll(acc, dato) ==
    [raised |-> FALSE, dict |-> Append(acc.dict, dato)]

\* a variant that stores the first record only
DeduplicaStepFirstOnly(acc, dato) ==
    IF acc.dict = << >> THEN [acc EXCEPT !.dict = Append(acc.dict, dato)] ELSE acc

\* one pass of the loop of _deduplica_dati; acc.dict is dati_dict and
\* acc.raised tells that pd.to_datetime raised in an earlier pass
DeduplicaStep(acc, dato) ==
    LET k == IndexOfId(acc.dict, dato.id) IN
    IF acc.raised THEN acc
    ELSE IF k = 0 THEN [acc EXCEPT !.dict = Append(acc.dict, dato)]
    ELSE IF \/ ToDatetime(Get(dato, "data_estrazione")).raises
            \/ ToDatetime(Get(acc.dict[k], "data_estrazione")).raises
         THEN [acc EXCEPT !.raised = TRUE]
    ELSE IF IsMoreRecent(dato, acc.dict[k])
         THEN [acc EXCEPT !.dict[k] = dato]
    ELSE acc

RECURSIVE DeduplicaFrom(_, _, _)
DeduplicaFrom(acc, ds, i) ==
    IF i > Len(ds) THEN acc ELSE DeduplicaFrom(DeduplicaStep(acc, ds[i]), ds, i + 1)

\* _deduplica_dati: list(dati_dict.values()), or the exception
DeduplicaDati(ds) == DeduplicaFrom([raised |-> FALSE, dict |-> << >>], ds, 1)

\* _arricchisci_dati: the validation flag (the time stamp of the run is
\* left out)
ArricchisciDati(ds) ==
    [ i \in 1..Len(ds) |->
        [ ds[i] EXCEPT !.validato =
            \A campo \in {"nome_missione", "paese", "data_inizio", "fonte"} :
                ds[i][campo] # Missing ] ]

NoId == <<"md5", Missing>>

Record(n, p, f, ts, x) ==
    [ nome_missione |-> n, paese |-> p, data_inizio |-> "2013-02-18",
      fonte |-> f, data_estrazione |-> ts, note |-> x,
      costo_totale |-> Absent, id |-> NoId, validato |-> FALSE ]

\* a record that carries the cost of the mission as the documents write it
RecordCosto(costo) ==
    [ Record("EUTM Mali", "Mali", "eeas", "2023-01-01", "a") EXCEPT !.costo_totale = Str(costo) ]

\* the records found in the JSON files of the input directory: one mission
\* seen at several extraction times, and the same mission with its name or
\* country in another letter case, and from another source
RawRecords ==
    { Record("EUTM Mali", "Mali", "eeas", ts, x) : ts \in Timestamps, x \in {"a", "b"} }
    \cup { Record("eutm mali", "Mali", "eeas", ts, "a") : ts \in {"2023-01-01", "2023-06-01"} }
    \cup { Record("EUTM Mali", "MALI", "eeas", "2023-01-01", "a"),
           Record("EUTM Mali", "Mali", "difesa", "2023-01-01", "a") }
    \cup { RecordCosto(<< "1", ".", "2", "3", "4", ",", "5", "6" >>),
           RecordCosto(<< "1", "2", "3", "4", ".", "5", "6" >>) }

InitMerge ==
    /\ FetchIdle /\ RaceIdle /\ ExtractIdle /\ LaterIdle
    /\ mpc = "start"
    /\ dati_in \in SeqsUpTo(RawRecords, MaxRecords)
    /\ dati = << >>

\* dati = self._carica_dati(input_dir)
MergeCarica ==
    /\ mpc = "start"
    /\ dati' = dati_in
    /\ mpc' = "caricati"
    /\ UNCHANGED dati_in

\* dati = self._normalizza_dati(dati)
MergeNormalizza ==
    /\ mpc = "caricati"
    /\ dati' = NormalizzaDati(dati)
    /\ mpc' = "normalizzati"
    /\ UNCHANGED dati_in

\* dati = self._deduplica_dati(dati); an exception is logged and raised
\* again by merge
MergeDeduplica ==
    /\ mpc = "normalizzati"
    /\ LET r == DeduplicaDati(dati) IN
       IF r.raised
       THEN mpc' = "raised" /\ UNCHANGED dati
       ELSE mpc' = "deduplicati" /\ dati' = r.dict
    /\ UNCHANGED dati_in

\* dati = self._arricchisci_dati(dati), then json.dump
MergeArricchisci ==
    /\ mpc = "deduplicati"
    /\ dati' = ArricchisciDati(dati)
    /\ mpc' = "salvati"
    /\ UNCHANGED dati_in

NextMerge ==
    \/ MergeCarica /\ UNCHANGED <<fetchVars, raceVars, extractVars, laterVars>>
    \/ MergeNormalizza /\ UNCHANGED <<fetchVars, raceVars, extractVars, laterVars>>
    \/ MergeDeduplica /\ UNCHANGED <<fetchVars, raceVars, extractVars, laterVars>>
    \/ MergeArricchisci /\ UNCHANGED <<fetchVars, raceVars, extractVars, laterVars>>

SpecMerge == InitMerge /\ [][NextMerge]_vars

-----------------------------------------------------------------------------
(* The scrapers' _estrai_dati_da_testo: DocumentScraper's, and the         *)
(* overriding ones of EEASScraper and UNScraper                            *)

\* One regular expression of a pattern set: campo is its key in the
\* dict, label the text it wants before the colon, group what its group
\* accepts, and head the expression's own text up to its first ':'.
Pattern(campo, label, group, head) ==
    [campo |-> campo, label |-> label, group |-> group, head |-> head]

\* self.patterns[lang], in the order of the dict
Patterns(l) ==
    IF l = "en"
    THEN << Pattern("nome_missione", "Mission", "line", "Mission\\s*"),
            Pattern("paese", "Country", "line", "Country\\s*"),
            Pattern("data_inizio", "Start Date", "date", "Start\\s*Date\\s*"),
            Pattern("data_fine", "End Date", "date", "End\\s*Date\\s*"),
            Pattern("personale_totale", "Total Personnel", "digits", "Total\\s*Personnel\\s*"),
            Pattern("costo_totale", "Total Cost", "amount", "Total\\s*Cost\\s*"),
            Pattern("tipo_missione", "Mission Type", "line", "Mission\\s*Type\\s*"),
            Pattern("mandato", "Mandate", "line", "Mandate\\s*") >>
    ELSE << Pattern("nome_missione", "Mission", "line", "Mission\\s*"),
            Pattern("paese", "Pays", "line", "Pays\\s*"),
            Pattern("data_inizio", "Date de debut", "date", "Date\\s*de\\s*debut\\s*"),
            Pattern("data_fine", "Date de fin", "date", "Date\\s*de\\s*fin\\s*"),
            Pattern("personale_totale", "Personnel total", "digits", "Personnel\\s*total\\s*"),
            Pattern("costo_totale", "Cout total", "amount", "Cout\\s*total\\s*"),
            Pattern("tipo_missione", "Type de mission", "line", "Type\\s*de\\s*mission\\s*"),
            Pattern("mandato", "Mandat", "line", "Mandat\\s*") >>

Campi(l) == { Patterns(l)[i].campo : i \in 1..Len(Patterns(l)) }

\* a line "label: value" of a document's text
Line(label, value, shape) == [label |-> label, value |-> value, shape |-> shape]

Lines ==
    { Line("Mission", "EUTM Mali ", "line"),
      Line("mission", "eutm mali", "line"),
      Line("Country", "Mali", "line"),
      Line("Pays", "Mali", "line"),
      Line("Start Date", "18/02/2013", "date"),
      Line("Start Date", "febbraio 2013", "line") }

\* str.strip()
Strip(v) == IF v = "EUTM Mali " THEN "EUTM Mali" ELSE v

\* does the expression match at this line
Matches(pat, line, ignorecase) ==
    /\ IF ignorecase THEN Lower(pat.label) = Lower(line.label) ELSE pat.label = line.label
    /\ pat.group = "line" \/ pat.group = line.shape

\* re.search: the first match in the text, 0 when there is none
Search(pat, text, ignorecase) ==
    IF \E i \in 1..Len(text) : Matches(pat, text[i], ignorecase)
    THEN CHOOSE i \in 1..Len(text) :
            /\ Matches(pat, text[i], ignorecase)
            /\ \A j \in 1..(i - 1) : ~Matches(pat, text[j], ignorecase)
    ELSE 0

\* An extraction result: "dict" with its items, or "list" of one-item dicts.
\* DocumentScraper._estrai_dati_da_testo
EstraiDocument(text, pats) ==
    [ type |-> "dict",
      items |-> [ i \in 1..Len(pats) |->
                    LET m == Search(pats[i], text, TRUE) IN
                    << pats[i].campo, IF m # 0 THEN Strip(text[m].value) ELSE "" >> ] ]

\* EEASScraper._estrai_dati_da_testo
EstraiEEAS(text, pats) ==
    [ type |-> "list",
      items |-> LET hit == SelectSeq(pats, LAMBDA q : Search(q, text, FALSE) # 0) IN
                [ i \in 1..Len(hit) |-> << hit[i].head, text[Search(hit[i], text, FALSE)].value >> ] ]

\* UNScraper._estrai_dati_da_testo
EstraiUN(text, pats) ==
    [ type |-> "list",
      items |-> LET hit == SelectSeq(pats, LAMBDA q : Search(q, text, FALSE) # 0) IN
                [ i \in 1..Len(hit) |-> << hit[i].campo, text[Search(hit[i], text, FALSE)].value >> ] ]

Scrapers == { "DocumentScraper", "EEASScraper", "UNScraper" }

InitExtract ==
    /\ FetchIdle /\ RaceIdle /\ MergeIdle /\ LaterIdle
    /\ xpc = "testo"
    /\ scraper \in Scrapers
    /\ lang \in {"en", "fr"}
    /\ testo \in SeqsUpTo(Lines, MaxLines)
    /\ estratti = [type |-> "none", items |-> << >>]

\* self._estrai_dati_da_testo(testo, self.patterns[lang])
EstraiDatiDaTesto ==
    /\ xpc = "testo"
    /\ estratti' = CASE scraper = "DocumentScraper" -> EstraiDocument(testo, Patterns(lang))
                     [] scraper = "EEASScraper" -> EstraiEEAS(testo, Patterns(lang))
                     [] scraper = "UNScraper" -> EstraiUN(testo, Patterns(lang))
    /\ xpc' = "estratti"
    /\ UNCHANGED <<scraper, testo, lang>>

NextExtract ==
    EstraiDatiDaTesto /\ UNCHANGED <<fetchVars, raceVars, mergeVars, laterVars>>

SpecExtract == InitExtract /\ [][NextExtract]_vars

-----------------------------------------------------------------------------
(* _pulisci_dati_missione of DocumentScraper and of CameraScraper: the     *)
(* cleaning of one extracted mission.  A string is the sequence of its     *)
(* characters.                                                             *)

\* bool(missione.get(campo)): an entry that is there and is not '', 0, 0.0
Truthy(v) ==
    CASE v.t = "absent" -> FALSE
      [] v.t = "str" -> v.s # << >>
      [] OTHER -> v.n # 0

\* str(v) of a string
PyStr(v) == v.s

\* for key, value in missione.items(): if isinstance(value, str): strip
StripValues(m) ==
    [ campo \in DOMAIN m |-> IF m[campo].t = "str" THEN Str(StrStrip(m[campo].s)) ELSE m[campo] ]

\* the body of the loop over ['data_inizio', 'data_fine']
PulisciData(v) ==
    IF ~Truthy(v) THEN v
    ELSE IF Strptime(v.s).raises THEN Str(<< >>)
    ELSE Str(Strftime(Strptime(v.s)))

\* re.sub(r'[^\d]', '', s)
SoloCifre(s) == SelectSeq(s, LAMBDA c : c \in Digits)

\* the personale_totale block
PulisciPersonale(v) ==
    IF ~Truthy(v) THEN v
    ELSE IF PyInt(SoloCifre(PyStr(v))).raises THEN IntV(0)
    ELSE IntV(PyInt(SoloCifre(PyStr(v))).n)

\* the costo_totale block
PulisciCosto(v) ==
    LET costo == Replace(Replace(PyStr(v), ".", << >>), ",", << "." >>) IN
    IF ~Truthy(v) THEN v
    ELSE IF PyFloat(costo).raises THEN FloatV(0, 0)
    ELSE FloatV(PyFloat(costo).n, PyFloat(costo).scale)

\* _pulisci_dati_missione; CameraScraper reads missione[campo] where
\* DocumentScraper reads missione.get(campo), and so raises KeyError for a
\* dict without one of the date keys
PulisciDatiMissione(cls, m) ==
    LET puliti == StripValues(m) IN
    IF cls = "CameraScraper" /\ \E campo \in {"data_inizio", "data_fine"} : m[campo].t = "absent"
    THEN [raised |-> TRUE, missione |-> puliti]
    ELSE [raised |-> FALSE,
          missione |-> [ puliti EXCEPT !.data_inizio = PulisciData(@),
                                       !.data_fine = PulisciData(@),
                                       !.personale_totale = PulisciPersonale(@),
                                       !.costo_totale = PulisciCosto(@) ]]

MaxChars == 2

\* the characters that the cost pattern [\d.,]+ lets through
CostoChars == { "1", "5", ".", "," }

\* raw values of the date fields
DateEstratte ==
    { Str(<< "1", "8", "/", "0", "2", "/", "2", "0", "1", "3" >>),
      Str(<< " ", "1", "8", "/", "0", "2", "/", "2", "0", "1", "3", " " >>),
      Str(<< "1", "/", "2", "/", "2", "0", "1", "3" >>),
      Str(<< "2", "9", "/", "0", "2", "/", "2", "0", "2", "4" >>),
      Str(<< "2", "9", "/", "0", "2", "/", "2", "0", "2", "3" >>),
      Str(<< "3", "1", "/", "0", "4", "/", "2", "0", "1", "3" >>),
      Str(<< "1", "3", "/", "1", "3", "/", "2", "0", "1", "3" >>),
      Str(<< "1", "8", "/", "0", "2", "/", "1", "3" >>),
      Str(<< "2", "0", "1", "3", "-", "0", "2", "-", "1", "8" >>),
      Str(<< "1", "8", ".", "0", "2", ".", "2", "0", "1", "3" >>),
      Str(<< "n", "/", "d" >>),
      Str(<< >>) }

\* raw values of personale_totale
PersonaleEstratto ==
    { Str(<< "3", "5", "0" >>),
      Str(<< "c", "i", "r", "c", "a", " ", "3", "5", "0", " ", "u", "n", "i", "t", "à" >>),
      Str(<< "1", ".", "2", "0", "0" >>),
      Str(<< "1", "2", " ", "e", " ", "3" >>),
      Str(<< "0", "0", "7" >>),
      Str(<< "n", "/", "d" >>),
      Str(<< " " >>),
      Str(<< >>) }

\* raw values of costo_totale: the amounts of the documents and every short
\* string over CostoChars
CostoEstratto ==
    { Str(<< "1", ".", "2", "3", "4", ",", "5", "6" >>),
      Str(<< "1", "2", "3", "4", ".", "5", "6" >>),
      Str(<< "1", "2", "3", "4", ",", "5", "6" >>),
      Str(<< "1", ",", "2", "3", "4", ".", "5", "6" >>),
      Str(<< "1", "2", ".", "5" >>),
      Str(<< "1", ".", "0", "0", "0", ".", "0", "0", "0" >>),
      Str(<< "€", " ", "1", "0", "0" >>),
      Str(<< "n", "/", "d" >>),
      Str(<< >>) }
    \cup { Str(s) : s \in SeqsUpTo(CostoChars, MaxChars) }

\* what the patterns of CameraScraper can capture for a field, '' when the
\* pattern does not match
CameraCattura(campo, v) ==
    LET p == Split(v.s, "/")
        costoCh == Digits \cup {".", ","}
    IN  \/ v = Str(<< >>)
        \/ /\ campo \in {"data_inizio", "data_fine"}
           /\ Len(p) = 3 /\ \A i \in 1..3 : AllDigits(p[i])
           /\ Len(p[1]) <= 2 /\ Len(p[2]) <= 2 /\ Len(p[3]) = 4
        \/ campo = "personale_totale" /\ AllDigits(v.s)
        \/ campo = "costo_totale" /\ v.s # << >> /\ \A i \in 1..Len(v.s) : v.s[i] \in costoCh

Pulitori == { "DocumentScraper", "CameraScraper" }

\* the dict handed to _pulisci_dati_missione: any strings and missing keys
\* for DocumentScraper, the captures of its patterns for CameraScraper
InitNormalize ==
    /\ EarlyIdle /\ FuzzyIdle /\ ClassIdle /\ RunIdle /\ LastIdle
    /\ npc = "estratto"
    /\ pulitore \in Pulitori
    /\ missione_in \in [ data_inizio : DateEstratte,
                         data_fine : { Absent, Str(<< >>), Str(<< "n", "/", "d" >>),
                                       Str(<< "1", "/", "2", "/", "2", "0", "1", "4" >>) },
                         personale_totale : PersonaleEstratto \cup { Absent },
                         costo_totale : CostoEstratto \cup { Absent } ]
    /\ pulitore = "CameraScraper" =>
          \A campo \in DOMAIN missione_in : CameraCattura(campo, missione_in[campo])
    /\ missione = << >>

\* missione = self._pulisci_dati_missione(missione)
Pulisci ==
    /\ npc = "estratto"
    /\ missione' = PulisciDatiMissione(pulitore, missione_in).missione
    /\ npc' = IF PulisciDatiMissione(pulitore, missione_in).raised THEN "raised" ELSE "pulito"
    /\ UNCHANGED <<pulitore, missione_in>>

NextNormalize ==
    Pulisci /\ UNCHANGED <<earlyVars, fuzzyVars, classVars, runVars, lastVars>>

SpecNormalize == InitNormalize /\ [][NextNormalize]_vars

-----------------------------------------------------------------------------
(* merge_excel: calcola_similarita, trova_duplicati and unisci_dati.  Of   *)
(* the ten columns of mappa_colonne the model keeps three; the loop over   *)
(* the columns treats every one alike.                                     *)

\* a missing value of a DataFrame read from the CSV
NaN == [t |-> "nan", s |-> << >>, n |-> 0, scale |-> 0]

\* a cell of the frame built by carica_excel_originale: the dict
\* {'valore': cell.value, 'formato': {...}}
DictV(s) == [t |-> "dict", s |-> s, n |-> 0, scale |-> 0]

Maiuscole == << "A", "B", "C", "D", "E", "F", "G", "H", "I", "J", "K", "L", "M",
               "N", "O", "P", "Q", "R", "S", "T", "U", "V", "W", "X", "Y", "Z" >>
Minuscole == << "a", "b", "c", "d", "e", "f", "g", "h", "i", "j", "k", "l", "m",
               "n", "o", "p", "q", "r", "s", "t", "u", "v", "w", "x", "y", "z" >>

\* str.lower()
StrLower(s) ==
    [ i \in 1..Len(s) |->
        IF \E k \in 1..26 : Maiuscole[k] = s[i]
        THEN Minuscole[CHOOSE k \in 1..26 : Maiuscole[k] = s[i]]
        ELSE s[i] ]

\* str(v): the text of a string, 'nan', and for a dict its repr, which
\* goes on with the repr of the four openpyxl style objects (several
\* hundred characters, cut here after the opening brace)
StrOf(v) ==
    CASE v.t = "str" -> v.s
      [] v.t = "nan" -> << "n", "a", "n" >>
      [] v.t = "dict" -> << "{", "'", "v", "a", "l", "o", "r", "e", "'", ":", " ", "'" >> \o v.s
                           \o << "'", ",", " ", "'", "f", "o", "r", "m", "a", "t", "o", "'", ":", " ", "{" >>

\* pd.isna(v)
IsNa(v) == v.t = "nan"

\* the number of equal characters from a[i] and b[j] on
RECURSIVE RunLen(_, _, _, _)
RunLen(a, b, i, j) ==
    IF i > Len(a) \/ j > Len(b) THEN 0
    ELSE IF a[i] # b[j] THEN 0
    ELSE 1 + RunLen(a, b, i + 1, j + 1)

\* SequenceMatcher.find_longest_match without junk: the longest common
\* block, of those the one that starts earliest in a, and of those the one
\* that starts earliest in b
FindLongestMatch(a, b) ==
    LET pairs == (1..Len(a)) \X (1..Len(b))
        run == [ q \in pairs |-> RunLen(a, b, q[1], q[2]) ]
        sizes == { run[q] : q \in pairs } \cup {0}
        size == CHOOSE k \in sizes : \A m \in sizes : m <= k
        best == { q \in pairs : run[q] = size }
        i == CHOOSE x \in { q[1] : q \in best } : \A q \in best : x <= q[1]
        j == CHOOSE y \in { q[2] : q \in { r \in best : r[1] = i } } :
                 \A q \in { r \in best : r[1] = i } : y <= q[2]
    IN  IF size = 0 THEN [i |-> 0, j |-> 0, size |-> 0] ELSE [i |-> i, j |-> j, size |-> size]

\* the sum of the sizes of get_matching_blocks(): the longest block, then
\* the same to its left and to its right
RECURSIVE MatchingSize(_, _)
MatchingSize(a, b) ==
    IF a = << >> \/ b = << >> THEN 0
    ELSE LET m == FindLongestMatch(a, b) IN
         IF m.size = 0 THEN 0
         ELSE m.size + MatchingSize(SubSeq(a, 1, m.i - 1), SubSeq(b, 1, m.j - 1))
                     + MatchingSize(SubSeq(a, m.i + m.size, Len(a)), SubSeq(b, m.j + m.size, Len(b)))

\* SequenceMatcher(None, a, b).ratio(): 2.0 * matches / length as the
\* fraction num / den, 1.0 for two empty strings
Ratio(a, b) ==
    IF Len(a) + Len(b) = 0 THEN [num |-> 1, den |-> 1]
    ELSE [num |-> 2 * MatchingSize(a, b), den |-> Len(a) + Len(b)]

\* x > y and x >= y on the fractions
Gt(x, y) == x.num * y.den > y.num * x.den
Ge(x, y) == x.num * y.den >= y.num * x.den

\* max(x, y)
FracMax(x, y) == IF Gt(y, x) THEN y ELSE x

\* calcola_similarita
CalcolaSimilarita(str1, str2) ==
    IF IsNa(str1) \/ IsNa(str2) THEN [num |-> 0, den |-> 1]
    ELSE Ratio(StrLower(StrOf(str1)), StrLower(StrOf(str2)))

\* the columns of mappa_colonne that the model keeps
mappa == [ nome_missione |-> "Nome Missione", paese |-> "Paese", note |-> "Note" ]

MaxScraped == 2
MaxMaster == 2

\* the rows of the scraped CSV
RigheScraped ==
    [ nome_missione : { Str(<< "E", "U", "T", "M", " ", "M", "a", "l", "i" >>), Str(<< "U", "N", "I", "F", "I", "L" >>), NaN },
      paese : { Str(<< "M", "a", "l", "i" >>), Str(<< "L", "i", "b", "a", "n", "o" >>) },
      note : { Str(<< "n" >>) } ]

\* the values of the rows of the master workbook
RigheMaster ==
    [ nome : { << "E", "U", "T", "M", "-", "M", "a", "l", "i" >>, << "U", "N", "I", "F", "I", "L" >>, << "M", "I", "N", "U", "S", "M", "A" >> },
      paese : { << "M", "a", "l", "i" >>, << "L", "i", "b", "a", "n", "o" >> } ]

\* the cells of the two frames that calcola_similarita is called with
CelleScraped == { r.nome_missione : r \in RigheScraped } \cup { r.paese : r \in RigheScraped }
CelleOriginale ==
    { Str(r.nome) : r \in RigheMaster } \cup { Str(r.paese) : r \in RigheMaster }
    \cup { DictV(r.nome) : r \in RigheMaster } \cup { DictV(r.paese) : r \in RigheMaster }

\* calcola_similarita on every pair of cells, computed once
Similarity == [ v \in CelleScraped, o \in CelleOriginale |-> CalcolaSimilarita(v, o) ]

\* the inner lambda of trova_duplicati
SimRiga(row, orig_row) ==
    FracMax(Similarity[row.nome_missione, orig_row[mappa.nome_missione]],
            Similarity[row.paese, orig_row[mappa.paese]])

\* df_originale.apply(...).max()
Similarita(row, orig) ==
    LET sims == [ k \in 1..Len(orig) |-> SimRiga(row, orig[k]) ] IN
    sims[CHOOSE k \in 1..Len(orig) : \A h \in 1..Len(orig) : Ge(sims[k], sims[h])]

\* df_originale.index[df_originale.apply(...).argmax()]: the first row
\* that has the largest value
ArgMax(row, orig) ==
    LET sims == [ k \in 1..Len(orig) |-> SimRiga(row, orig[k]) ] IN
    CHOOSE k \in 1..Len(orig) :
        /\ \A h \in 1..Len(orig) : Ge(sims[k], sims[h])
        /\ \A h \in 1..(k - 1) : Gt(sims[k], sims[h])

\* the threshold 0.8
Soglia == [num |-> 8, den |-> 10]

\* trova_duplicati: for every scraped row the row of the master it is a
\* duplicate of, 0 when its similarita is not above the threshold
TrovaDuplicati(scraped, orig) ==
    [ i \in 1..Len(scraped) |->
        IF Gt(Similarita(scraped[i], orig), Soglia) THEN ArgMax(scraped[i], orig) ELSE 0 ]

\* mask = df_originale['Nome Missione'] == row['nome_missione']
Mask(row, orig) ==
    { k \in 1..Len(orig) :
        /\ orig[k]["Nome Missione"].t = "str" /\ row.nome_missione.t = "str"
        /\ orig[k]["Nome Missione"].s = row.nome_missione.s }

\* the row of the worksheet that the loop writes for this scraped row
RowIdx(i, scraped, orig, dup, sheet) ==
    IF dup[i] # 0 THEN dup[i]
    ELSE IF Mask(scraped[i], orig) # {}
         THEN CHOOSE k \in Mask(scraped[i], orig) : \A h \in Mask(scraped[i], orig) : k <= h
    ELSE Len(sheet) + 1

\* a variant that sets the value and never the fill
ScriviRigaSenzaFill(sheet, k, row, dup) ==
    LET new == [ c \in {"Nome Missione", "Paese", "Note"} |->
                   [ value |-> CASE c = "Nome Missione" -> row.nome_missione
                                 [] c = "Paese" -> row.paese
                                 [] c = "Note" -> row.note,
                     fill |-> FALSE ] ]
    IN  IF k <= Len(sheet) THEN [ sheet EXCEPT ![k] = new ] ELSE Append(sheet, new)

\* a cell that has had no value and no fill yet
CellaVuota == [value |-> NaN, fill |-> FALSE]

\* the loop over mappa.items() for one scraped row: the value is set, and
\* the yellow fill when the row is a duplicate
ScriviRiga(sheet, k, row, dup) ==
    LET old == IF k <= Len(sheet) THEN sheet[k] ELSE [ c \in {"Nome Missione", "Paese", "Note"} |-> CellaVuota ]
        new == [ c \in {"Nome Missione", "Paese", "Note"} |->
                   [ value |-> CASE c = "Nome Missione" -> row.nome_missione
                                 [] c = "Paese" -> row.paese
                                 [] c = "Note" -> row.note,
                     fill |-> dup \/ old[c].fill ] ]
    IN  IF k <= Len(sheet) THEN [ sheet EXCEPT ![k] = new ] ELSE Append(sheet, new)

\* a row of df_originale: dicts of value and format as carica_excel_originale
\* builds them, or the plain values
RigaOriginale(kind, r) ==
    IF kind = "dict"
    THEN [ c \in {"Nome Missione", "Paese", "Note"} |->
             DictV(CASE c = "Nome Missione" -> r.nome [] c = "Paese" -> r.paese [] c = "Note" -> << "o" >>) ]
    ELSE [ c \in {"Nome Missione", "Paese", "Note"} |->
             Str(CASE c = "Nome Missione" -> r.nome [] c = "Paese" -> r.paese [] c = "Note" -> << "o" >>) ]

\* a row of the worksheet
RigaFoglio(r) ==
    [ c \in {"Nome Missione", "Paese", "Note"} |->
        [ value |-> Str(CASE c = "Nome Missione" -> r.nome [] c = "Paese" -> r.paese [] c = "Note" -> << "o" >>),
          fill |-> FALSE ] ]

\* main of merge_excel up to the call of unisci_dati: the scraped CSV and
\* a master workbook with at least one data row
InitFuzzy ==
    /\ EarlyIdle /\ NormIdle /\ ClassIdle /\ RunIdle /\ LastIdle
    /\ upc = "trova"
    /\ celle \in {"dict", "valori"}
    /\ df_scraped \in SeqsUpTo(RigheScraped, MaxScraped)
    /\ \E master \in SeqsUpTo(RigheMaster, MaxMaster) :
          /\ master # << >>
          /\ df_originale = [ k \in 1..Len(master) |-> RigaOriginale(celle, master[k]) ]
          /\ ws = [ k \in 1..Len(master) |-> RigaFoglio(master[k]) ]
    /\ duplicati = << >>
    /\ idx = 0

\* duplicati = trova_duplicati(df_scraped, df_originale, mappa)
UnisciTrova ==
    /\ upc = "trova"
    /\ duplicati' = TrovaDuplicati(df_scraped, df_originale)
    /\ idx' = 1
    /\ upc' = "righe"
    /\ UNCHANGED <<celle, df_scraped, df_originale, ws>>

\* one pass of for idx, row in df_scraped.iterrows()
UnisciRiga ==
    /\ upc = "righe"
    /\ idx <= Len(df_scraped)
    /\ ws' = ScriviRiga(ws, RowIdx(idx, df_scraped, df_originale, duplicati, ws),
                        df_scraped[idx], duplicati[idx] # 0)
    /\ idx' = idx + 1
    /\ UNCHANGED <<upc, celle, df_scraped, df_originale, duplicati>>

\* return wb
UnisciReturn ==
    /\ upc = "righe"
    /\ idx > Len(df_scraped)
    /\ upc' = "uniti"
    /\ UNCHANGED <<celle, df_scraped, df_originale, duplicati, ws, idx>>

NextFuzzy ==
    \/ UnisciTrova /\ UNCHANGED <<earlyVars, normVars, classVars, runVars, lastVars>>
    \/ UnisciRiga /\ UNCHANGED <<earlyVars, normVars, classVars, runVars, lastVars>>
    \/ UnisciReturn /\ UNCHANGED <<earlyVars, normVars, classVars, runVars, lastVars>>

SpecFuzzy == InitFuzzy /\ [][NextFuzzy]_vars

-----------------------------------------------------------------------------
(* main.py: classifica_missione and classifica_dataset                     *)

\* kw in s
In(kw, s) == \E i \in 1..(Len(s) - Len(kw) + 1) : SubSeq(s, i, i + Len(kw) - 1) = kw

\* str(row.get(key, '')).lower()
Campo(r, key) == StrLower(StrOf(IF r[key].t = "absent" THEN Str(<< >>) ELSE r[key]))

\* the conditions of the outer ifs, in the order of the code
IsUE(fonte, tipo, nome) ==
    In(<< "e", "e", "a", "s" >>, fonte) \/ In(<< "c", "s", "d", "p" >>, tipo) \/ In(<< "p", "e", "s", "d" >>, tipo) \/ In(<< "e", "u" >>, nome)

IsNATO(fonte, nome) ==
    In(<< "n", "a", "t", "o" >>, fonte) \/ In(<< "k", "f", "o", "r" >>, nome) \/ In(<< "i", "s", "a", "f" >>, nome) \/ In(<< "r", "e", "s", "o", "l", "u", "t", "e", " ", "s", "u", "p", "p", "o", "r", "t" >>, nome)

IsONU(fonte, tipo, nome) ==
    \/ In(<< "o", "n", "u" >>, fonte) \/ In(<< "u", "n" >>, nome) \/ In(<< "p", "e", "a", "c", "e", "k", "e", "e", "p", "i", "n", "g" >>, tipo)
    \/ In(<< "u", "n", "i", "f", "i", "l" >>, nome) \/ In(<< "m", "i", "n", "u", "r", "s", "o" >>, nome) \/ In(<< "u", "n", "s", "m", "i", "s" >>, nome)

IsITA(fonte) ==
    In(<< "c", "a", "m", "e", "r", "a" >>, fonte) \/ In(<< "s", "e", "n", "a", "t", "o" >>, fonte) \/ In(<< "d", "i", "f", "e", "s", "a" >>, fonte) \/ In(<< "e", "s", "t", "e", "r", "i" >>, fonte)

IsIbrida(fonte, nome, note) ==
    \/ In(<< "b", "o", "s", "n", "i", "a" >>, nome) /\ (In(<< "n", "a", "t", "o" >>, fonte) \/ In(<< "u", "e" >>, fonte))
    \/ In(<< "a", "l", "t", "h", "e", "a" >>, nome) /\ In(<< "n", "a", "t", "o" >>, fonte)
    \/ In(<< "u", "n", "i", "f", "i", "l" >>, nome) /\ In(<< "o", "n", "u" >>, fonte) /\ (In(<< "i", "t", "a" >>, note) \/ In(<< "i", "t", "a", "l", "i", "a" >>, note))

\* the inner ifs of the UE block
TagUE(tipo, nome) ==
    IF In(<< "m", "i", "l", "i", "t" >>, tipo) \/ In(<< "e", "u", "t", "m" >>, nome) \/ In(<< "n", "a", "v", "f", "o", "r" >>, nome) \/ In(<< "e", "u", "n", "a", "v", "f", "o", "r" >>, nome)
    THEN "UE - Militare"
    ELSE IF In(<< "c", "i", "v" >>, tipo) \/ In(<< "e", "u", "p", "o", "l" >>, nome) \/ In(<< "e", "u", "b", "a", "m" >>, nome) \/ In(<< "e", "u", "l", "e", "x" >>, nome)
    THEN "UE - Civile"
    ELSE "UE - Altro"

\* the inner ifs of the ITA block
TagITA(tipo, nome, note) ==
    IF \/ In(<< "b", "i", "l", "a", "t", "e", "r", "a", "l" >>, note) \/ In(<< "b", "i", "l", "a", "t", "e", "r", "a", "l", "e" >>, note)
       \/ In(<< "m", "i", "s", "i", "n" >>, nome) \/ In(<< "l", "i", "b", "i", "a" >>, nome) \/ In(<< "n", "i", "g", "e", "r" >>, nome)
    THEN "ITA - Bilaterale"
    ELSE IF In(<< "u", "m", "a", "n", "i", "t" >>, tipo) \/ In(<< "s", "a", "n", "i", "t", "a", "r" >>, tipo) \/ In(<< "o", "s", "p", "e", "d", "a", "l", "e" >>, nome) \/ In(<< "m", "o", "z", "a", "m", "b", "i", "c", "o" >>, nome)
    THEN "ITA - Umanitaria"
    ELSE IF In(<< "a", "n", "t", "i", "t", "e", "r", "r", "o", "r", "i", "s", "m", "o" >>, tipo) \/ In(<< "m", "a", "r", "i", "t", "t", "i", "m", "a" >>, tipo) \/ In(<< "g", "o", "l", "f", "o" >>, nome)
    THEN "ITA - Sicurezza"
    ELSE "ITA - Altro"

\* a variant that tests the ONU rule before the NATO rule
ClassificaMissioneOnuPrima(r) ==
    LET fonte == Campo(r, "fonte")
        tipo == Campo(r, "tipo_missione")
        nome == Campo(r, "nome_missione")
        note == Campo(r, "note")
    IN  IF IsUE(fonte, tipo, nome) THEN TagUE(tipo, nome)
        ELSE IF IsONU(fonte, tipo, nome) THEN "ONU - Peacekeeping"
        ELSE IF IsNATO(fonte, nome) THEN "NATO - Difesa"
        ELSE IF IsITA(fonte) THEN TagITA(tipo, nome, note)
        ELSE IF IsIbrida(fonte, nome, note) THEN "Multilaterale - Ibrida"
        ELSE "Altro"

\* a variant without the last return: None for a record that no rule matches
ClassificaMissioneSenzaDefault(r) ==
    LET fonte == Campo(r, "fonte")
        tipo == Campo(r, "tipo_missione")
        nome == Campo(r, "nome_missione")
        note == Campo(r, "note")
    IN  IF IsUE(fonte, tipo, nome) THEN TagUE(tipo, nome)
        ELSE IF IsNATO(fonte, nome) THEN "NATO - Difesa"
        ELSE IF IsONU(fonte, tipo, nome) THEN "ONU - Peacekeeping"
        ELSE IF IsITA(fonte) THEN TagITA(tipo, nome, note)
        ELSE IF IsIbrida(fonte, nome, note) THEN "Multilaterale - Ibrida"
        ELSE "None"

\* classifica_missione
ClassificaMissione(r) ==
    LET fonte == Campo(r, "fonte")
        tipo == Campo(r, "tipo_missione")
        nome == Campo(r, "nome_missione")
        note == Campo(r, "note")
    IN  IF IsUE(fonte, tipo, nome) THEN TagUE(tipo, nome)
        ELSE IF IsNATO(fonte, nome) THEN "NATO - Difesa"
        ELSE IF IsONU(fonte, tipo, nome) THEN "ONU - Peacekeeping"
        ELSE IF IsITA(fonte) THEN TagITA(tipo, nome, note)
        ELSE IF IsIbrida(fonte, nome, note) THEN "Multilaterale - Ibrida"
        ELSE "Altro"

\* the rows of the dataset: the fonte of the seven scrapers and of other
\* files, names, types and notes of missions, and every field also empty,
\* missing from the frame, or NaN
Righe ==
    [ fonte : { Str(x) : x \in { << "E", "E", "A", "S" >>, << "U", "N" >>, << "N", "A", "T", "O" >>, << "d", "i", "f", "e", "s", "a" >>, << "c", "a", "m", "e", "r", "a", "_", "d", "e", "p", "u", "t", "a", "t", "i" >>, << "o", "n", "u" >>, << "u", "e" >>, << >> } }
              \cup { Absent, NaN },
      nome_missione : { Str(x) : x \in { << "E", "U", "T", "M", " ", "M", "a", "l", "i" >>,
                                         << "U", "N", "I", "F", "I", "L" >>,
                                         << "K", "F", "O", "R" >>,
                                         << "E", "U", "P", "O", "L" >>,
                                         << "U", "N", "T", "S", "O" >>,
                                         << "M", "I", "S", "I", "N", " ", "N", "i", "g", "e", "r" >>,
                                         << "B", "o", "s", "n", "i", "a" >>,
                                         << "M", "I", "N", "U", "S", "M", "A" >>,
                                         << >> } }
                      \cup { Absent, NaN },
      tipo_missione : { Str(x) : x \in { << "m", "i", "l", "i", "t", "a", "r", "e" >>,
                                         << "c", "i", "v", "i", "l", "e" >>,
                                         << "o", "b", "s", "e", "r", "v", "e", "r", " ", "m", "i", "s", "s", "i", "o", "n" >>,
                                         << "u", "m", "a", "n", "i", "t", "a", "r", "i", "a" >>,
                                         << "m", "a", "r", "i", "t", "t", "i", "m", "a" >>,
                                         << >> } }
                      \cup { Absent },
      note : { Str(x) : x \in { << "b", "i", "l", "a", "t", "e", "r", "a", "l", "e" >>, << "i", "t", "a", "l", "i", "a" >>, << >> } }
             \cup { Absent },
      mandato : { Str(<< >>), Absent } ]

InitClassify ==
    /\ EarlyIdle /\ NormIdle /\ FuzzyIdle /\ RunIdle /\ LastIdle
    /\ kpc = "riga"
    /\ riga \in Righe
    /\ tipologia = ""

\* df['Tipologia'] = df.apply(classifica_missione, axis=1), for one row
ClassificaRiga ==
    /\ kpc = "riga"
    /\ tipologia' = ClassificaMissione(riga)
    /\ kpc' = "classificata"
    /\ UNCHANGED riga

NextClassify ==
    ClassificaRiga /\ UNCHANGED <<earlyVars, normVars, fuzzyVars, runVars, lastVars>>

SpecClassify == InitClassify /\ [][NextClassify]_vars

-----------------------------------------------------------------------------
(* scripts/main.py: main.  The scrapers are built in the dict literal,     *)
(* then every source is scraped and validated inside one try, and the      *)
(* frames that passed are concatenated, deduplicated and saved.            *)

\* the keys of scrapers, in the order of the dict
Fonti == << "camera", "senato", "difesa", "esteri", "eeas", "nato", "un" >>

\* self.fonte of the scraper of a source
FonteDi(nome) ==
    CASE nome = "camera" -> "camera_deputati"
      [] nome = "eeas" -> "EEAS"
      [] nome = "nato" -> "NATO"
      [] nome = "un" -> "UN"
      [] OTHER -> nome

\* str.isalpha() over the characters modelled
IsAlpha(s) ==
    /\ s # << >>
    /\ \A i \in 1..Len(s) : \E k \in 1..26 : s[i] = Maiuscole[k] \/ s[i] = Minuscole[k]

\* DataValidator._valida_paese
ValidaPaese(paese) == paese.t = "str" /\ StrStrip(paese.s) # << >> /\ IsAlpha(StrStrip(paese.s))

\* df.columns: a frame without rows is the pd.DataFrame() that a scraper
\* returns when it has extracted nothing, and has no columns
Columns(frame) == IF frame = << >> THEN {} ELSE { "nome_missione", "paese", "fonte" }

\* DataValidator.valida_dataframe: is the list of errors empty; the checks
\* of columns that the frames modelled do not have are skipped by the code
ValidaDataframe(frame, obbligatori) ==
    /\ \A campo \in obbligatori :
          /\ campo \in Columns(frame)
          /\ \A k \in 1..Len(frame) : ~IsNa(frame[k][campo])
    /\ "paese" \in Columns(frame) => \A k \in 1..Len(frame) : ValidaPaese(frame[k].paese)

\* pd.concat(dati_completi, ignore_index=True)
RECURSIVE Concat(_)
Concat(frames) == IF frames = << >> THEN << >> ELSE Head(frames) \o Concat(Tail(frames))

\* drop_duplicates(subset=['nome_missione', 'paese']): the first row of
\* every pair of name and country stays
DropDuplicates(frame) ==
    LET first(k) == \A h \in 1..(k - 1) :
                        \/ frame[h].nome_missione # frame[k].nome_missione
                        \/ frame[h].paese # frame[k].paese
        RECURSIVE From(_)
        From(k) == IF k > Len(frame) THEN << >>
                   ELSE (IF first(k) THEN << frame[k] >> ELSE << >>) \o From(k + 1)
    IN  From(1)

\* the rows that a scraper extracts, without its fonte
Estratte ==
    << [nome_missione |-> Str(<< "E", "U", "T", "M", " ", "M", "a", "l", "i" >>), paese |-> Str(<< "M", "a", "l", "i" >>)],
       [nome_missione |-> Str(<< "U", "N", "I", "F", "I", "L" >>), paese |-> Str(<< "L", "i", "b", "a", "n", "o" >>)],
       [nome_missione |-> Str(<< "U", "N", "I", "F", "I", "L" >>), paese |-> NaN],
       [nome_missione |-> Str(<< "U", "N", "M", "I", "S", "S" >>), paese |-> Str(<< "S", "u", "d", " ", "S", "u", "d", "a", "n" >>)] >>

\* the frames that estrai_dati returns: nothing, or rows of Estratte
Frames ==
    { << >>, << Estratte[1] >>, << Estratte[1], Estratte[2] >>,
      << Estratte[1], Estratte[3] >>, << Estratte[4] >> }

\* the frame of a source: every row carries the fonte of its scraper
Tagged(frame, nome) ==
    [ k \in 1..Len(frame) |->
        [ nome_missione |-> frame[k].nome_missione, paese |-> frame[k].paese,
          fonte |-> Str(<< FonteDi(nome) >>) ] ]

InitRun ==
    /\ EarlyIdle /\ NormIdle /\ FuzzyIdle /\ ClassIdle /\ LastIdle
    /\ rpc = "scrapers"
    /\ campi_obbligatori \in { {"nome_missione", "paese"}, {"nome_missione", "paese", "data_inizio"} }
    /\ costruiti = 0
    /\ ri = 0
    /\ df = << >>
    /\ esito = [ k \in 1..Len(Fonti) |-> "" ]
    /\ chiamate = << >>
    /\ dati_completi = << >>
    /\ df_finale = << >>

\* one entry of scrapers = {...}: the constructor returns
Costruisci ==
    /\ rpc = "scrapers"
    /\ costruiti < Len(Fonti)
    /\ costruiti' = costruiti + 1
    /\ rpc' = IF costruiti + 1 = Len(Fonti) THEN "estrai" ELSE "scrapers"
    /\ ri' = IF costruiti + 1 = Len(Fonti) THEN 1 ELSE ri
    /\ UNCHANGED <<campi_obbligatori, df, esito, chiamate, dati_completi, df_finale>>

\* one entry of scrapers = {...}: the constructor raises (a key missing from
\* config.yaml, an argument that the base class does not take); the dict
\* literal is outside every try, so the exception leaves main
CostruisciRaises ==
    /\ rpc = "scrapers"
    /\ costruiti < Len(Fonti)
    /\ esito' = [ esito EXCEPT ![costruiti + 1] = "raised" ]
    /\ rpc' = "aborted"
    /\ UNCHANGED <<campi_obbligatori, costruiti, ri, df, chiamate, dati_completi, df_finale>>

\* df = scraper.estrai_dati() returns a frame
EstraiDati ==
    /\ rpc = "estrai"
    /\ ri <= Len(Fonti)
    /\ \E frame \in Frames : df' = Tagged(frame, Fonti[ri])
    /\ chiamate' = Append(chiamate, Fonti[ri])
    /\ rpc' = "valida"
    /\ UNCHANGED <<campi_obbligatori, costruiti, ri, esito, dati_completi, df_finale>>

\* df = scraper.estrai_dati() raises: except Exception logs it and the loop
\* goes on with the next source
EstraiDatiRaises ==
    /\ rpc = "estrai"
    /\ ri <= Len(Fonti)
    /\ chiamate' = Append(chiamate, Fonti[ri])
    /\ esito' = [ esito EXCEPT ![ri] = "raised" ]
    /\ ri' = ri + 1
    /\ UNCHANGED <<rpc, campi_obbligatori, costruiti, df, dati_completi, df_finale>>

\* a variant that appends the frame whatever the validator says
ValidaDatiAppendAll ==
    /\ rpc = "valida"
    /\ esito' = [ esito EXCEPT ![ri] = IF ValidaDataframe(df, campi_obbligatori) THEN "valid" ELSE "invalid" ]
    /\ dati_completi' = Append(dati_completi, df)
    /\ df' = << >>
    /\ ri' = ri + 1
    /\ rpc' = "estrai"
    /\ UNCHANGED <<campi_obbligatori, costruiti, chiamate, df_finale>>

\* is_valid, errori = validator.valida_dataframe(df, nome); if not is_valid:
\* continue; dati_completi.append(df)
ValidaDati ==
    /\ rpc = "valida"
    /\ esito' = [ esito EXCEPT ![ri] = IF ValidaDataframe(df, campi_obbligatori) THEN "valid" ELSE "invalid" ]
    /\ dati_completi' = IF ValidaDataframe(df, campi_obbligatori)
                        THEN Append(dati_completi, df) ELSE dati_completi
    /\ df' = << >>
    /\ ri' = ri + 1
    /\ rpc' = "estrai"
    /\ UNCHANGED <<campi_obbligatori, costruiti, chiamate, df_finale>>

\* after the loop: return when nothing was collected, else concat,
\* drop_duplicates and the two files
Salva ==
    /\ rpc = "estrai"
    /\ ri > Len(Fonti)
    /\ rpc' = IF dati_completi = << >> THEN "vuoto" ELSE "salvato"
    /\ df_finale' = IF dati_completi = << >> THEN << >> ELSE DropDuplicates(Concat(dati_completi))
    /\ UNCHANGED <<campi_obbligatori, costruiti, ri, df, esito, chiamate, dati_completi>>

runFrame == <<earlyVars, normVars, fuzzyVars, classVars, lastVars>>

NextRun ==
    \/ Costruisci /\ UNCHANGED runFrame
    \/ CostruisciRaises /\ UNCHANGED runFrame
    \/ EstraiDati /\ UNCHANGED runFrame
    \/ EstraiDatiRaises /\ UNCHANGED runFrame
    \/ ValidaDati /\ UNCHANGED runFrame
    \/ Salva /\ UNCHANGED runFrame

SpecRun == InitRun /\ [][NextRun]_vars

-----------------------------------------------------------------------------
(* scripts/data_validator.py: valida_dataframe on the frame of a source    *)
(* that carries the dates, the personnel and the cost of its missions      *)
(* (senato, difesa, esteri, camera).                                       *)

\* datetime.strptime(s, '%Y-%m-%d')
StrptimeIso(s) ==
    LET p == Split(s, "-") IN
    IF /\ Len(p) = 3
       /\ AllDigits(p[1]) /\ Len(p[1]) = 4
       /\ AllDigits(p[2]) /\ Len(p[2]) <= 2
       /\ AllDigits(p[3]) /\ Len(p[3]) <= 2
       /\ ToInt(p[1]) >= 1
       /\ ToInt(p[2]) \in 1..12
       /\ ToInt(p[3]) \in 1..DaysIn(ToInt(p[2]), ToInt(p[1]))
    THEN [raises |-> FALSE, d |-> ToInt(p[3]), m |-> ToInt(p[2]), y |-> ToInt(p[1])]
    ELSE [raises |-> TRUE, d |-> 0, m |-> 0, y |-> 0]

\* datetime.strptime(s, formato) for the two formats of the configuration
StrptimeFormato(s, formato) == IF formato = "%d/%m/%Y" THEN Strptime(s) ELSE StrptimeIso(s)

\* DataValidator._valida_formato_data: some configured format parses
ValidaFormatoData(v, formati) ==
    \E k \in 1..Len(formati) : ~StrptimeFormato(v.s, formati[k]).raises

\* re.sub(r'[€\s]', '', costo_str)
SenzaEuroSpazi(s) == SelectSeq(s, LAMBDA c : c # " " /\ c # "€")

\* DataValidator._valida_formato_costo: a string that float accepts
ValidaFormatoCosto(v) == v.t = "str" /\ ~PyFloat(SenzaEuroSpazi(v.s)).raises

\* DataValidator._valida_personale: int(personale) >= 0; int of None is a
\* TypeError and int of '' a ValueError, both caught
ValidaPersonale(v) ==
    CASE v.t = "int" -> v.n >= 0
      [] v.t = "str" -> ~PyInt(StrStrip(v.s)).raises /\ PyInt(StrStrip(v.s)).n >= 0
      [] OTHER -> FALSE

NaT == [raises |-> FALSE, nat |-> TRUE, d |-> 0, m |-> 0, y |-> 0]

\* pd.to_datetime of a column of one string, dayfirst left at False: an
\* ISO date is read as it stands; of a/b/yyyy the month is a whenever that
\* names a day of the calendar, else the day is a; '' is NaT; anything
\* else raises
PdToDatetime(v) ==
    LET iso == StrptimeIso(v.s)
        p == Split(v.s, "/")
        dmy == Strptime(v.s)
    IN  IF v.s = << >> THEN NaT
        ELSE IF ~iso.raises THEN [raises |-> FALSE, nat |-> FALSE, d |-> iso.d, m |-> iso.m, y |-> iso.y]
        ELSE IF dmy.raises THEN [raises |-> TRUE, nat |-> FALSE, d |-> 0, m |-> 0, y |-> 0]
        ELSE IF dmy.d <= 12 /\ dmy.m <= DaysIn(dmy.d, dmy.y)
             THEN [raises |-> FALSE, nat |-> FALSE, d |-> dmy.m, m |-> dmy.d, y |-> dmy.y]
             ELSE [raises |-> FALSE, nat |-> FALSE, d |-> dmy.d, m |-> dmy.m, y |-> dmy.y]

\* a > b for two days of the calendar
DopoDi(a, b) ==
    \/ a.y > b.y
    \/ a.y = b.y /\ a.m > b.m
    \/ a.y = b.y /\ a.m = b.m /\ a.d > b.d

\* df['data_inizio_dt'] > df['data_fine_dt'] on one row; NaT compares False
DateIncoerenti(r) ==
    LET a == PdToDatetime(r.data_inizio)
        b == PdToDatetime(r.data_fine)
    IN  ~a.nat /\ ~b.nat /\ DopoDi(a, b)

\* valida_dataframe on a frame whose rows have nome_missione, paese,
\* data_inizio, data_fine, personale_totale and costo_totale, under a
\* configuration whose campi_obbligatori are nome_missione and paese:
\* "raises" when pd.to_datetime raises, else is the list of errors empty
ValidaDataframeCompleto(frame, formati) ==
    IF \E k \in 1..Len(frame) :
          PdToDatetime(frame[k].data_inizio).raises \/ PdToDatetime(frame[k].data_fine).raises
    THEN "raises"
    ELSE IF \A k \in 1..Len(frame) :
               /\ ~IsNa(frame[k].nome_missione) /\ ~IsNa(frame[k].paese)
               /\ ValidaFormatoData(frame[k].data_inizio, formati)
               /\ ValidaFormatoData(frame[k].data_fine, formati)
               /\ ValidaFormatoCosto(frame[k].costo_totale)
               /\ ValidaPaese(frame[k].paese)
               /\ ValidaPersonale(frame[k].personale_totale)
               /\ ~DateIncoerenti(frame[k])
         THEN "valid" ELSE "invalid"

\* the dates that the scrapers of senato and esteri cut out of a page
\* (\d{1,2}/\d{1,2}/\d{4}), the dates that _pulisci_dati_missione writes,
\* and the empty date of a page without dates
DateScraper ==
    { Str(<< "0", "4", "/", "0", "4", "/", "2", "0", "2", "3" >>), Str(<< "0", "5", "/", "0", "3", "/", "2", "0", "2", "3" >>), Str(<< "1", "5", "/", "0", "3", "/", "2", "0", "2", "3" >>), Str(<< "2", "0", "2", "3", "-", "0", "3", "-", "0", "5" >>), Str(<< "2", "0", "2", "3", "-", "0", "4", "-", "0", "4" >>), Str(<< >>) }

\* personale_totale: int of (\d+), 0 when not found; '' and None of the
\* scrapers that leave the field raw
PersonaleScraper == { IntV(0), IntV(120), Str(<< >>), Absent }

\* costo_totale: the float of senato, difesa and camera, the raw match
\* ([\d.,]+) of esteri
CostoScraper ==
    { FloatV(0, 1), FloatV(123456, 2), Str(<< "1", "2", "3", "4", ".", "5", "6" >>), Str(<< "1", ".", "2", "3", "4", ",", "5", "6" >>), Str(<< "€", " ", "1", "5" >>) }

FormatiData == { << "%Y-%m-%d" >>, << "%d/%m/%Y", "%Y-%m-%d" >> }

InitValida ==
    /\ EarlyIdle /\ NormIdle /\ FuzzyIdle /\ ClassIdle /\ RunIdle /\ CollectIdle
    /\ vpc = "valida"
    /\ formati_data \in FormatiData
    /\ \E inizio \in DateScraper, fine \in DateScraper, p \in PersonaleScraper, c \in CostoScraper :
          missioni = << [ nome_missione |-> Str(<< "U", "N", "I", "F", "I", "L" >>), paese |-> Str(<< "L", "i", "b", "a", "n", "o" >>),
                          data_inizio |-> inizio, data_fine |-> fine,
                          personale_totale |-> p, costo_totale |-> c ] >>
    /\ validita = ""

\* is_valid, errori = validator.valida_dataframe(df, nome)
Valida ==
    /\ vpc = "valida"
    /\ validita' = ValidaDataframeCompleto(missioni, formati_data)
    /\ vpc' = "done"
    /\ UNCHANGED <<formati_data, missioni>>

NextValida ==
    Valida /\ UNCHANGED <<earlyVars, normVars, fuzzyVars, classVars, runVars, collectVars>>

SpecValida == InitValida /\ [][NextValida]_vars

-----------------------------------------------------------------------------
(* SmartDocumentFetcher.collect: _extract_from_sitemap for every sitemap,  *)
(* then _extract_from_html for every index page; the download of a link is *)
(* _download_with_retry as modelled above.                                 *)

\* what the entries of a seed can be: a document, a page that is no
\* document, and the text of an empty <loc/>, which is None
Documento1 == [netloc |-> "www.difesa.it", stem |-> "/doc/a", suffix |-> ".pdf"]
Documento2 == [netloc |-> "www.esteri.it", stem |-> "/doc/b", suffix |-> ".PDF"]
Pagina == [netloc |-> "www.difesa.it", stem |-> "/pagina", suffix |-> ".html"]
LocVuoto == None

\* a seed: its kind, what its request and its parsing give, and the
\* entries found in it
Seed(kind, risposta, links) == [kind |-> kind, esito |-> risposta, links |-> links]

\* session.get raises, the status is not 200, or the parser raises
EsitiFalliti == { "RequestError", "status", "ParseError" }

Sitemaps ==
    { Seed("sitemap", e, << >>) : e \in EsitiFalliti }
    \cup { Seed("sitemap", "ok", l) :
             l \in { << >>, << Documento1 >>, << Pagina, Documento1 >>,
                     << LocVuoto, Documento1 >>, << Documento1, Documento2 >> } }

Indici ==
    { Seed("indice", e, << >>) : e \in EsitiFalliti }
    \cup { Seed("indice", "ok", l) : l \in { << >>, << Pagina, Documento2 >> } }

IsUrl(link) == link # LocVuoto

\* the documents among the entries of a list of seeds
RECURSIVE NDocumenti(_)
NDocumenti(ss) ==
    IF ss = << >> THEN 0
    ELSE Len(SelectSeq(Head(ss).links, LAMBDA l : IsUrl(l) /\ IsDocumentUrl(l))) + NDocumenti(Tail(ss))

\* the answers of the servers while a document is downloaded
RisposteDocumento ==
    { r \in Responses : r.status \in {0, 404, 500} \/ (r.status = 200 /\ r.content = << 1, 2 >>) }

InitCollect ==
    /\ FetchIdle /\ RaceIdle /\ MergeIdle /\ ExtractIdle
    /\ NormIdle /\ FuzzyIdle /\ ClassIdle /\ RunIdle /\ ValidaIdle
    /\ cpc = "seed"
    /\ \E sm \in SeqsUpTo(Sitemaps, 2), ix \in SeqsUpTo(Indici, 1) :
          /\ sm # << >>
          /\ NDocumenti(sm \o ix) <= MaxFetches
          /\ seeds = sm \o ix
    /\ si = 1
    /\ li = 0
    /\ visti = << >>
    /\ tentati = << >>
    /\ errori = << >>
    /\ all_metadata = << >>

\* a variant in which the exception of a seed leaves collect
SeedFailsRaises ==
    /\ cpc = "seed"
    /\ si <= Len(seeds)
    /\ seeds[si].esito # "ok"
    /\ visti' = Append(visti, si)
    /\ cpc' = IF seeds[si].esito = "status" THEN "seed" ELSE "raised"
    /\ si' = si + 1
    /\ UNCHANGED <<seeds, li, tentati, errori, all_metadata, fetchVars>>

\* the request of a seed raises, its status is not 200, or ET.fromstring
\* (BeautifulSoup) raises: except Exception logs, the empty metadata_list
\* is returned and collect goes to the next seed
SeedFails ==
    /\ cpc = "seed"
    /\ si <= Len(seeds)
    /\ seeds[si].esito # "ok"
    /\ visti' = Append(visti, si)
    /\ errori' = IF seeds[si].esito = "status" THEN errori ELSE Append(errori, si)
    /\ si' = si + 1
    /\ UNCHANGED <<cpc, seeds, li, tentati, all_metadata, fetchVars>>

\* the seed answers 200 and is parsed: metadata_list = [], the loop over
\* its entries starts
SeedParsed ==
    /\ cpc = "seed"
    /\ si <= Len(seeds)
    /\ seeds[si].esito = "ok"
    /\ visti' = Append(visti, si)
    /\ metadata_list' = << >>
    /\ li' = 1
    /\ cpc' = "links"
    /\ UNCHANGED <<seeds, si, tentati, errori, all_metadata>>
    /\ UNCHANGED <<store, fpc, url, attempt, reqs, slept, wrote, result, nfetch, max_retries>>

\* an entry that is no document: the if is false, nothing is done
LinkSkip ==
    /\ cpc = "links" /\ fpc = "idle"
    /\ li <= Len(seeds[si].links)
    /\ IsUrl(seeds[si].links[li])
    /\ ~IsDocumentUrl(seeds[si].links[li])
    /\ li' = li + 1
    /\ UNCHANGED <<cpc, seeds, si, visti, tentati, errori, all_metadata, fetchVars>>

\* an entry that is None: url.lower() raises AttributeError inside the for
\* loop, the except Exception of the seed logs it and the seed returns what
\* it has collected; its remaining entries are not handled
LinkNone ==
    /\ cpc = "links" /\ fpc = "idle"
    /\ li <= Len(seeds[si].links)
    /\ ~IsUrl(seeds[si].links[li])
    /\ errori' = Append(errori, si)
    /\ all_metadata' = all_metadata \o metadata_list
    /\ si' = si + 1
    /\ cpc' = "seed"
    /\ UNCHANGED <<seeds, li, visti, tentati, fetchVars>>

\* a document: time.sleep(self.sleep_time) and the call of
\* _download_with_retry
LinkDownload ==
    /\ cpc = "links"
    /\ li <= Len(seeds[si].links)
    /\ IsUrl(seeds[si].links[li])
    /\ StartDownload(seeds[si].links[li])
    /\ tentati' = Append(tentati, << si, li >>)
    /\ li' = li + 1
    /\ UNCHANGED <<cpc, seeds, si, visti, errori, all_metadata>>

\* the loop over the entries is over: return metadata_list, and
\* all_metadata.extend(metadata_list) in collect
SeedEnd ==
    /\ cpc = "links" /\ fpc = "idle"
    /\ li > Len(seeds[si].links)
    /\ all_metadata' = all_metadata \o metadata_list
    /\ si' = si + 1
    /\ cpc' = "seed"
    /\ UNCHANGED <<seeds, li, visti, tentati, errori, fetchVars>>

\* both loops of collect are over
CollectEnd ==
    /\ cpc = "seed"
    /\ si > Len(seeds)
    /\ cpc' = "done"
    /\ UNCHANGED <<seeds, si, li, visti, tentati, errori, all_metadata, fetchVars>>

collectFrame == <<raceVars, mergeVars, extractVars, normVars, fuzzyVars, classVars, runVars, validaVars>>

NextCollect ==
    \/ SeedFails /\ UNCHANGED collectFrame
    \/ SeedParsed /\ UNCHANGED collectFrame
    \/ LinkSkip /\ UNCHANGED collectFrame
    \/ LinkNone /\ UNCHANGED collectFrame
    \/ LinkDownload /\ UNCHANGED collectFrame
    \/ SeedEnd /\ UNCHANGED collectFrame
    \/ CollectEnd /\ UNCHANGED collectFrame
    \/ \E r \in RisposteDocumento : DirectGet(r) /\ UNCHANGED <<collectVars, collectFrame>>
    \/ Sleep /\ UNCHANGED <<collectVars, collectFrame>>
    \/ \E r \in RisposteDocumento : TryWaybackMachine(r) /\ UNCHANGED <<collectVars, collectFrame>>
    \/ Return /\ UNCHANGED <<collectVars, collectFrame>>

SpecCollect == InitCollect /\ [][NextCollect]_vars

-----------------------------------------------------------------------------
(* Properties of the fetcher *)

DirectReqs == SelectSeq(reqs, LAMBDA q : q.req = "direct")
ArchiveReqs == SelectSeq(reqs, LAMBDA q : q.req = "archive")
LastReq(s) == s[Len(s)]
Is200(q) == q.kind = "response" /\ q.status = 200
All404 == \A i \in 1..Len(DirectReqs) : DirectReqs[i].kind = "response" /\ DirectReqs[i].status = 404
ArtifactsOf(st, c) == { f \in DOMAIN st : st[f] = c }

\* C1: a call whose direct answers are all 404 issues no archive request
\* before it has made max_retries direct requests, and when it returns it
\* has made exactly max_retries direct requests followed by exactly one
\* archive request, with None as its result unless the archive answered 200.
C1_All404ThenOneArchive ==
    (fpc # "idle" /\ All404) =>
        /\ \A i \in 1..Len(reqs) : reqs[i].req = "archive" => i = max_retries + 1
        /\ fpc = "return" =>
              /\ Len(DirectReqs) = max_retries
              /\ Len(ArchiveReqs) = 1
              /\ LastReq(reqs).req = "archive"
              /\ ~Is200(LastReq(reqs)) => result = None

C1_Witness ==
    /\ fpc = "return"
    /\ All404
    /\ Len(DirectReqs) = max_retries
    /\ Len(ArchiveReqs) = 1
    /\ LastReq(reqs).req = "archive"
    /\ LastReq(reqs).status = 404
    /\ result = None

\* C2: a call that returns after max_retries failed direct requests,
\* whatever the kind of the last failure, has issued exactly one archive
\* request.
C2_ArchiveAfterAnyExhaustion ==
    ( /\ fpc = "return"
      /\ Len(DirectReqs) = max_retries
      /\ \A i \in 1..Len(DirectReqs) : ~Is200(DirectReqs[i]) )
    => Len(ArchiveReqs) = 1

\* C3: the store never holds two artifacts with the same bytes, whatever
\* URLs the bytes were fetched from.
C3_OneArtifactPerContent ==
    \A c \in Contents : Cardinality(ArtifactsOf(store, c)) <= 1

\* a step of the running call that ends it on a 200 answer (direct or archive)
Got200Step ==
    /\ fpc \in {"get", "wayback"}
    /\ fpc' = "return"
    /\ Is200(LastReq(reqs'))

FilesOfContent(st, c) == { f \in DOMAIN st : f.hash = Prefix12(HashContent(c)) }
AllDone == \A w \in Workers : wpc[w] = "done"

\* C5: when both workers hold the same bytes and both have left
\* _save_file, the store holds exactly one artifact for that content and
\* its bytes are the fetched bytes, under every interleaving.
C5_RaceLeavesOneArtifact ==
    (AllDone /\ wcontent[1] = wcontent[2]) =>
        /\ Cardinality(FilesOfContent(store, wcontent[1])) = 1
        /\ \A f \in FilesOfContent(store, wcontent[1]) : store[f] = wcontent[1]

\* What does hold of the race: two workers that derive the same file name
\* leave one complete file under it, after one or two writes of it.
RaceOnOneNameIsBenign ==
    (AllDone /\ FileName(wcontent[1], wurl[1]) = FileName(wcontent[2], wurl[2])) =>
        /\ Exists(store, FileName(wcontent[1], wurl[1]))
        /\ store[FileName(wcontent[1], wurl[1])] = wcontent[1]
        /\ nwrites <= 2

-----------------------------------------------------------------------------
(* Properties of the merger *)

Range(q) == { q[i] : i \in 1..Len(q) }
Perms(n) == { f \in [1..n -> 1..n] : \A i, j \in 1..n : f[i] = f[j] => i = j }
Permuted(q, f) == [ i \in 1..Len(q) |-> q[f[i]] ]
Normalizzati == NormalizzaDati(dati_in)
Bucket(ds, id) == { j \in 1..Len(ds) : ds[j].id = id }
Dated(dato) == LET ts == ToDatetime(Get(dato, "data_estrazione")) IN ~ts.raises /\ ~ts.nat
Day(dato) == ToDatetime(Get(dato, "data_estrazione")).t

\* C6: the records kept by _deduplica_dati are the same for every order of
\* the input list (whenever the pass completes), also when records of one
\* identity have equal or missing timestamps.
C6_OrderIndependent ==
    mpc = "deduplicati" =>
        \A f \in Perms(Len(dati_in)) :
            LET r == DeduplicaDati(NormalizzaDati(Permuted(dati_in, f))) IN
            ~r.raised => Range(r.dict) = Range(dati)

\* C7: for every identity whose records all carry a timestamp and carry
\* pairwise different ones (two records with different timestamps, in
\* either order, in particular), _deduplica_dati keeps exactly the record
\* with the latest timestamp.
C7_LaterWins ==
    mpc = "deduplicati" =>
        \A i \in 1..Len(Normalizzati) :
            LET nd == Normalizzati
                B == Bucket(nd, nd[i].id) IN
            ( /\ \A j \in B : Dated(nd[j])
              /\ \A j, k \in B : j # k => Day(nd[j]) # Day(nd[k])
              /\ \A j \in B : Day(nd[j]) <= Day(nd[i]) )
            => /\ nd[i] \in Range(dati)
               /\ \A k \in 1..Len(dati) : dati[k].id = nd[i].id => dati[k] = nd[i]

C7_Witness ==
    /\ mpc = "deduplicati"
    /\ Len(dati_in) = 2
    /\ dati_in[1].data_estrazione = "2023-01-01"
    /\ dati_in[2].data_estrazione = "2023-06-01"
    /\ GeneraIdUnivoco(dati_in[1]) = GeneraIdUnivoco(dati_in[2])
    /\ dati = << NormalizzaDato(dati_in[2]) >>

\* C8: after _deduplica_dati, and in what merge saves, no two records have
\* the same id.
C8_OneRecordPerIdentity ==
    mpc \in {"deduplicati", "salvati"} =>
        \A i, j \in 1..Len(dati) : dati[i].id = dati[j].id => i = j

C8_Witness ==
    /\ mpc = "salvati"
    /\ Len(dati_in) = 3
    /\ Len(dati) = 2
    /\ dati[1].id # dati[2].id

SameUpToCase(a, b) ==
    /\ Lower(a.nome_missione) = Lower(b.nome_missione)
    /\ Lower(a.paese) = Lower(b.paese)
    /\ a.data_inizio = b.data_inizio
    /\ a.fonte = b.fonte

\* C9: records that differ only in the letter case of nome_missione or of
\* paese get the same id, and the deduplicated list keeps one of them.
C9_IdentityIgnoresCase ==
    /\ mpc = "normalizzati" =>
          \A i, j \in 1..Len(dati) : SameUpToCase(dati[i], dati[j]) => dati[i].id = dati[j].id
    /\ mpc = "deduplicati" =>
          \A i, j \in 1..Len(dati) : SameUpToCase(dati[i], dati[j]) => i = j

-----------------------------------------------------------------------------
(* Properties of the extraction *)

Keys(e) == { e.items[i][1] : i \in 1..Len(e.items) }

\* C10: whatever the text and the pattern set, the extracted fields are
\* exactly the declared ones, each once, and a field whose expression
\* matches nowhere is present with the empty string.
C10_AllDeclaredFieldsPresent ==
    xpc = "estratti" =>
        /\ Keys(estratti) = Campi(lang)
        /\ Len(estratti.items) = Len(Patterns(lang))
        /\ \A i \in 1..Len(Patterns(lang)) :
              Search(Patterns(lang)[i], testo, scraper = "DocumentScraper") = 0 =>
                 << Patterns(lang)[i].campo, "" >> \in { estratti.items[k] : k \in 1..Len(estratti.items) }

\* What does hold: DocumentScraper's own implementation returns every
\* declared field.
DocumentScraperReturnsAllFields ==
    (xpc = "estratti" /\ scraper = "DocumentScraper") =>
        /\ Keys(estratti) = Campi(lang)
        /\ Len(estratti.items) = Len(Patterns(lang))

-----------------------------------------------------------------------------
(* Properties of _pulisci_dati_missione *)

DateCampi == { "data_inizio", "data_fine" }

\* the day, month and year that a text of the form d/m/yyyy names
GiornoMeseAnno(s) ==
    LET p == Split(StrStrip(s), "/") IN [d |-> ToInt(p[1]), m |-> ToInt(p[2]), y |-> ToInt(p[3])]

\* out is yyyy-mm-dd and names the day, month and year of data
IsIsoOf(out, data) ==
    /\ Len(out) = 10 /\ out[5] = "-" /\ out[8] = "-"
    /\ AllDigits(SubSeq(out, 1, 4)) /\ ToInt(SubSeq(out, 1, 4)) = data.y
    /\ AllDigits(SubSeq(out, 6, 7)) /\ ToInt(SubSeq(out, 6, 7)) = data.m
    /\ AllDigits(SubSeq(out, 9, 10)) /\ ToInt(SubSeq(out, 9, 10)) = data.d

\* C11: cleaning never raises on a date field; a date string that does not
\* match the accepted format d/m/yyyy (or names no day of the calendar)
\* becomes the empty string, and one that matches becomes the ISO text
\* yyyy-mm-dd of the same day, month and year.
C11_DateBecomesIsoOrEmpty ==
    /\ npc # "raised"
    /\ npc = "pulito" =>
          \A campo \in DateCampi :
              missione_in[campo].t = "str" =>
                  /\ missione[campo].t = "str"
                  /\ IF Strptime(StrStrip(missione_in[campo].s)).raises
                     THEN missione[campo].s = << >>
                     ELSE IsIsoOf(missione[campo].s, GiornoMeseAnno(missione_in[campo].s))

\* a start date with blanks around it was rewritten and an end date that is
\* no date was emptied
C11_Witness ==
    /\ npc = "pulito"
    /\ missione_in.data_inizio = Str(<< " ", "1", "8", "/", "0", "2", "/", "2", "0", "1", "3", " " >>)
    /\ missione.data_inizio = Str(<< "2", "0", "1", "3", "-", "0", "2", "-", "1", "8" >>)
    /\ missione_in.data_fine = Str(<< "n", "/", "d" >>)
    /\ missione.data_fine = Str(<< >>)

\* C12: after cleaning, personale_totale is an integer that is at least 0:
\* the integer written by the digits of the raw value in their order, and
\* 0 when the raw value has no digit, the empty string of an unmatched
\* field included.
C12_PersonaleIsNatural ==
    npc = "pulito" /\ missione_in.personale_totale.t = "str" =>
        /\ missione.personale_totale.t = "int"
        /\ missione.personale_totale.n >= 0
        /\ missione.personale_totale.n = ToInt(SoloCifre(missione_in.personale_totale.s))

\* the values that are numbers are what the claim says: digits in order,
\* and 0 for a non-empty text without digits
PersonaleNonVuotoIsNatural ==
    npc = "pulito" /\ missione_in.personale_totale.t = "str"
                   /\ StrStrip(missione_in.personale_totale.s) # << >> =>
        /\ missione.personale_totale.t = "int"
        /\ missione.personale_totale.n = ToInt(SoloCifre(missione_in.personale_totale.s))

\* the empty string of an unmatched field is left as it is
PersonaleVuotoRestaStringa ==
    npc = "pulito" /\ missione_in.personale_totale.t = "str"
                   /\ StrStrip(missione_in.personale_totale.s) = << >> =>
        missione.personale_totale = Str(<< >>)

RECURSIVE Pow10(_)
Pow10(k) == IF k = 0 THEN 1 ELSE 10 * Pow10(k - 1)

\* two decimal numbers n / 10^scale of the same value
SameAmount(a, b) ==
    LET k == IF a.scale <= b.scale THEN a.scale ELSE b.scale IN
    a.n * Pow10(b.scale - k) = b.n * Pow10(a.scale - k)

Count(s, c) == Len(SelectSeq(s, LAMBDA x : x = c))

\* the amount that a raw cost names: with a decimal point and no comma the
\* number as written; with one comma the points are thousands separators
\* and the comma is the decimal mark; 0.0 when neither reading gives a number
ImportoAtteso(raw) ==
    LET s == StrStrip(raw)
        eu == Replace(Replace(s, ".", << >>), ",", << "." >>)
    IN  IF Count(s, ",") = 0 /\ ~PyFloat(s).raises THEN PyFloat(s)
        ELSE IF Count(s, ",") = 1 /\ ~PyFloat(eu).raises THEN PyFloat(eu)
        ELSE [raises |-> FALSE, n |-> 0, scale |-> 0]

\* C13: cleaning of costo_totale removes the thousands separators and turns
\* a decimal comma into a decimal point without changing the amount; an
\* amount written with a decimal point and no comma keeps its value and an
\* unparsable value gives 0.0.
C13_CostoKeepsAmount ==
    npc = "pulito" /\ missione_in.costo_totale.t = "str" =>
        /\ missione.costo_totale.t = "float"
        /\ SameAmount(missione.costo_totale, ImportoAtteso(missione_in.costo_totale.s))

\* an amount with a decimal point and no comma is multiplied by a power of
\* ten: 1234.56 becomes 123456.0
CostoConPuntoMoltiplicato ==
    npc = "pulito" /\ missione_in.costo_totale = Str(<< "1", "2", "3", "4", ".", "5", "6" >>) =>
        missione.costo_totale = FloatV(123456, 0)

\* the empty string of an unmatched field is left as it is
CostoVuotoRestaStringa ==
    npc = "pulito" /\ missione_in.costo_totale = Str(<< >>) => missione.costo_totale = Str(<< >>)

\* _normalizza_dati of DataMerger reads the comma as a thousands separator:
\* 1.234,56 becomes 1.23456 there
MergeCostoVirgolaRimossa ==
    mpc = "normalizzati" =>
        \A i \in 1..Len(dati) :
            dati_in[i].costo_totale = Str(<< "1", ".", "2", "3", "4", ",", "5", "6" >>) =>
                dati[i].costo_totale = FloatV(123456, 5)

\* with a comma in the raw text the amount is kept
CostoConVirgolaKeepsAmount ==
    npc = "pulito" /\ missione_in.costo_totale.t = "str"
                   /\ Count(missione_in.costo_totale.s, ",") = 1
                   /\ ~PyFloat(Replace(Replace(StrStrip(missione_in.costo_totale.s), ".", << >>), ",", << "." >>)).raises =>
        /\ missione.costo_totale.t = "float"
        /\ SameAmount(missione.costo_totale, ImportoAtteso(missione_in.costo_totale.s))

-----------------------------------------------------------------------------
(* Properties of merge_excel *)

Colonne == { "Nome Missione", "Paese", "Note" }

\* the similarity of two texts, 0 for a missing one
SimTesti(v, s) == Similarity[v, Str(s)]

\* max(nameSimilarity, countrySimilarity) of scraped row i and the master
\* row k, on the name and the country that the two rows carry
SimNomi(i, k) ==
    FracMax(SimTesti(df_scraped[i].nome_missione, df_originale[k]["Nome Missione"].s),
            SimTesti(df_scraped[i].paese, df_originale[k]["Paese"].s))

\* the largest SimNomi of scraped row i is reached at master row k
Massimo(i, k) ==
    LET sims == [ h \in 1..Len(df_originale) |-> SimNomi(i, h) ] IN
    \A h \in 1..Len(df_originale) : Ge(sims[k], sims[h])

Linked(i) == duplicati[i] # 0

\* C14: an incoming record is linked to a master row exactly when the
\* largest max(nameSimilarity, countrySimilarity) over the master rows is
\* above 0.8, and the row it is linked to reaches that largest value;
\* "EUTM Mali" against "EUTM-Mali" is above 0.8, against "UNIFIL" it is not.
C14_LinkedIffBestAboveThreshold ==
    upc = "righe" /\ idx = 1 =>
        \A i \in 1..Len(df_scraped) :
            /\ Linked(i) <=> \E k \in 1..Len(df_originale) : Massimo(i, k) /\ Gt(SimNomi(i, k), Soglia)
            /\ Linked(i) => Massimo(i, duplicati[i])
            /\ Gt(Ratio(StrLower(<< "E", "U", "T", "M", " ", "M", "a", "l", "i" >>), StrLower(<< "E", "U", "T", "M", "-", "M", "a", "l", "i" >>)), Soglia)
            /\ ~Gt(Ratio(StrLower(<< "E", "U", "T", "M", " ", "M", "a", "l", "i" >>), StrLower(<< "U", "N", "I", "F", "I", "L" >>)), Soglia)

\* on a master frame of plain values trova_duplicati links as C14 says
TrovaDuplicatiSuValori ==
    upc = "righe" /\ idx = 1 /\ celle = "valori" =>
        \A i \in 1..Len(df_scraped) :
            /\ Linked(i) <=> \E k \in 1..Len(df_originale) : Massimo(i, k) /\ Gt(SimNomi(i, k), Soglia)
            /\ Linked(i) => Massimo(i, duplicati[i])

\* on the frame that carica_excel_originale builds nothing is ever linked
NessunDuplicatoSuDict ==
    upc \in {"righe", "uniti"} /\ celle = "dict" => \A i \in 1..Len(df_scraped) : ~Linked(i)

\* "EUTM Mali" was linked to the master row "EUTM-Mali" and not to "UNIFIL"
EutmMaliLinked ==
    /\ upc = "uniti"
    /\ Len(df_originale) = 2
    /\ df_originale[1]["Nome Missione"] = Str(<< "U", "N", "I", "F", "I", "L" >>)
    /\ df_originale[2]["Nome Missione"] = Str(<< "E", "U", "T", "M", "-", "M", "a", "l", "i" >>)
    /\ \E i \in 1..Len(df_scraped) :
          /\ df_scraped[i].nome_missione = Str(<< "E", "U", "T", "M", " ", "M", "a", "l", "i" >>)
          /\ duplicati[i] = 2

\* the scraped rows handled so far that were linked to master row k
LinkedTo(k) == { i \in 1..(idx - 1) : duplicati[i] = k }

\* C15: every cell of a master row overwritten through a fuzzy link
\* carries the fill afterwards (and the value of the incoming record), and
\* a master row that no incoming record was linked to has no fill and no
\* value changed by a fuzzy link.
C15_MarkerOnLinkedRowsOnly ==
    upc \in {"righe", "uniti"} =>
        \A k \in 1..Len(df_originale) :
            IF LinkedTo(k) # {}
            THEN \A c \in Colonne :
                    /\ ws[k][c].fill
                    /\ \E i \in 1..(idx - 1) :
                          /\ RowIdx(i, df_scraped, df_originale, duplicati, ws) = k
                          /\ ws[k] = ScriviRiga(ws, k, df_scraped[i], TRUE)[k]
            ELSE \A c \in Colonne :
                    /\ ~ws[k][c].fill
                    /\ \/ ws[k][c].value = Str(df_originale[k][c].s)
                       \/ \E i \in 1..(idx - 1) : ~Linked(i) /\ k \in Mask(df_scraped[i], df_originale)

\* one master row was overwritten and marked through a fuzzy link, the
\* other was left as it was
C15_Witness ==
    /\ upc = "uniti"
    /\ Len(df_originale) = 2
    /\ LinkedTo(2) # {} /\ LinkedTo(1) = {}
    /\ ws[2]["Nome Missione"] = [value |-> Str(<< "E", "U", "T", "M", " ", "M", "a", "l", "i" >>), fill |-> TRUE]
    /\ ws[1]["Nome Missione"] = [value |-> Str(<< "U", "N", "I", "F", "I", "L" >>), fill |-> FALSE]
    /\ ws[1]["Paese"] = [value |-> Str(<< "L", "i", "b", "a", "n", "o" >>), fill |-> FALSE]

-----------------------------------------------------------------------------
(* Properties of classifica_missione *)

Tags ==
    { "UE - Militare", "UE - Civile", "UE - Altro", "NATO - Difesa", "ONU - Peacekeeping",
      "ITA - Bilaterale", "ITA - Umanitaria", "ITA - Sicurezza", "ITA - Altro",
      "Multilaterale - Ibrida", "Altro" }

\* the track of a tag: 1 UE, 2 NATO, 3 ONU, 4 ITA, 5 Multilaterale, 6 default
TrackOfTag(tag) ==
    CASE tag \in {"UE - Militare", "UE - Civile", "UE - Altro"} -> 1
      [] tag = "NATO - Difesa" -> 2
      [] tag \in {"ONU - Peacekeeping", "ONU - Observation"} -> 3
      [] tag \in {"ITA - Bilaterale", "ITA - Umanitaria", "ITA - Sicurezza", "ITA - Altro"} -> 4
      [] tag = "Multilaterale - Ibrida" -> 5
      [] tag = "Altro" -> 6
      [] OTHER -> 0

\* does the condition of track n hold for the row
TrackHolds(n, r) ==
    CASE n = 1 -> IsUE(Campo(r, "fonte"), Campo(r, "tipo_missione"), Campo(r, "nome_missione"))
      [] n = 2 -> IsNATO(Campo(r, "fonte"), Campo(r, "nome_missione"))
      [] n = 3 -> IsONU(Campo(r, "fonte"), Campo(r, "tipo_missione"), Campo(r, "nome_missione"))
      [] n = 4 -> IsITA(Campo(r, "fonte"))
      [] n = 5 -> IsIbrida(Campo(r, "fonte"), Campo(r, "nome_missione"), Campo(r, "note"))
      [] n = 6 -> TRUE

\* C16: classifica_missione is total: every row, also one whose fields are
\* missing or empty, gets exactly one tag of the fixed set, and a row that
\* no rule matches gets Altro.
C16_EveryRowGetsOneTag ==
    kpc = "classificata" =>
        /\ tipologia \in Tags
        /\ (\A n \in 1..5 : ~TrackHolds(n, riga)) => tipologia = "Altro"

\* a row with every field missing was classified, and got Altro
C16_Witness ==
    /\ kpc = "classificata"
    /\ \A campo \in DOMAIN riga : riga[campo] = Absent
    /\ tipologia = "Altro"

\* C17: the tracks are tried in the order UE, NATO, ONU, ITA, Multilaterale,
\* default and the tag is one of the first track whose condition holds;
\* fonte EEAS with the name EUTM Mali gives UE - Militare and fonte UN with
\* the name UNIFIL gives ONU - Peacekeeping.
C17_FirstMatchingTrackWins ==
    kpc = "classificata" =>
        /\ TrackHolds(TrackOfTag(tipologia), riga)
        /\ \A n \in 1..(TrackOfTag(tipologia) - 1) : ~TrackHolds(n, riga)
        /\ riga.fonte = Str(<< "E", "E", "A", "S" >>) /\ riga.nome_missione = Str(<< "E", "U", "T", "M", " ", "M", "a", "l", "i" >>)
              => tipologia = "UE - Militare"
        /\ riga.fonte = Str(<< "U", "N" >>) /\ riga.nome_missione = Str(<< "U", "N", "I", "F", "I", "L" >>)
              => tipologia = "ONU - Peacekeeping"

\* a row on the NATO track and on the ONU track got the NATO tag
C17_Witness ==
    /\ kpc = "classificata"
    /\ TrackHolds(2, riga) /\ TrackHolds(3, riga) /\ ~TrackHolds(1, riga)
    /\ tipologia = "NATO - Difesa"

\* the observer keywords
Osservatori == { << "o", "b", "s", "e", "r", "v" >>, << "o", "s", "s", "e", "r", "v" >> }

HasObserverKeyword(r) ==
    \E kw \in Osservatori, campo \in {"tipo_missione", "nome_missione", "note", "mandato"} :
        In(kw, Campo(r, campo))

\* C18: a row on the ONU track that the UE and NATO rules do not match is
\* tagged ONU - Observation when it carries observer keywords and
\* ONU - Peacekeeping when it does not.
C18_ObserverTaggedObservation ==
    kpc = "classificata" /\ TrackHolds(3, riga) /\ ~TrackHolds(1, riga) /\ ~TrackHolds(2, riga) =>
        tipologia = IF HasObserverKeyword(riga) THEN "ONU - Observation" ELSE "ONU - Peacekeeping"

\* every row on the ONU track gets the one tag ONU - Peacekeeping
OnuSemprePeacekeeping ==
    kpc = "classificata" /\ TrackHolds(3, riga) /\ ~TrackHolds(1, riga) /\ ~TrackHolds(2, riga) =>
        tipologia = "ONU - Peacekeeping"

\* a row of the UN scraper whose name does not hold 'un' is not on the ONU
\* track: fonte UN does not hold 'onu'
FonteUnNonBasta ==
    kpc = "classificata" /\ riga.fonte = Str(<< "U", "N" >>) /\ riga.nome_missione = Str(<< "M", "I", "N", "U", "S", "M", "A" >>)
                         /\ ~In(<< "p", "e", "a", "c", "e", "k", "e", "e", "p", "i", "n", "g" >>, Campo(riga, "tipo_missione")) =>
        tipologia = "Altro"

-----------------------------------------------------------------------------
(* Properties of main *)

Finished == rpc \in {"aborted", "vuoto", "salvato"}

SomeRaised == \E k \in 1..Len(Fonti) : esito[k] = "raised"

\* the rows of the final dataset that carry the fonte of source k
RowsOf(k) == { j \in 1..Len(df_finale) : df_finale[j].fonte = Str(<< FonteDi(Fonti[k]) >>) }

\* the frames of the sources that succeeded, in the order of the loop
Succeeded == { k \in 1..Len(Fonti) : esito[k] = "valid" }

\* C19: when the pipeline of one source raises, that source contributes no
\* record, every source is still run exactly once, and the run goes on to
\* merge and save the records of the sources that succeeded.
C19_RaisingSourceIsIsolated ==
    Finished /\ SomeRaised =>
        /\ chiamate = Fonti
        /\ \A k \in 1..Len(Fonti) : esito[k] = "raised" => RowsOf(k) = {}
        /\ Succeeded # {} => rpc = "salvato" /\ df_finale = DropDuplicates(Concat(dati_completi))

\* an exception of estrai_dati, inside the try of the loop, is isolated
LoopIsolatesRaisingSource ==
    rpc \in {"vuoto", "salvato"} =>
        /\ chiamate = Fonti
        /\ \A k \in 1..Len(Fonti) : esito[k] = "raised" => RowsOf(k) = {}
        /\ Succeeded # {} => rpc = "salvato" /\ df_finale = DropDuplicates(Concat(dati_completi))

\* an exception of a constructor ends the run before any source is scraped
ConstructorAbortsRun ==
    rpc = "aborted" => chiamate = << >> /\ df_finale = << >> /\ dati_completi = << >>

\* C20: every record of the final dataset comes from a frame that passed
\* validation; a source whose frame fails validation contributes no record,
\* and the loop goes on with the remaining sources.
C20_OnlyValidatedBatches ==
    /\ \A b \in 1..Len(dati_completi) : ValidaDataframe(dati_completi[b], campi_obbligatori)
    /\ \A j \in 1..Len(df_finale) :
          \E k \in Succeeded : df_finale[j].fonte = Str(<< FonteDi(Fonti[k]) >>)
    /\ \A k \in 1..Len(Fonti) :
          esito[k] = "invalid" =>
              /\ RowsOf(k) = {}
              /\ \A b \in 1..Len(dati_completi) :
                    \A j \in 1..Len(dati_completi[b]) :
                        dati_completi[b][j].fonte # Str(<< FonteDi(Fonti[k]) >>)
              /\ rpc \in {"estrai", "valida", "vuoto", "salvato"}
              /\ rpc \in {"vuoto", "salvato"} => chiamate = Fonti

\* a run in which one frame failed validation and another passed was saved
C20_Witness ==
    /\ rpc = "salvato"
    /\ esito[1] = "invalid"
    /\ esito[2] = "valid"
    /\ esito[3] = "invalid"
    /\ RowsOf(2) # {}
    /\ RowsOf(1) = {} /\ RowsOf(3) = {}

-----------------------------------------------------------------------------
(* Properties of valida_dataframe *)

\* what a date of the frame means: the first configured format that parses
Significato(v) ==
    LET k == CHOOSE j \in 1..Len(formati_data) :
                 /\ ~StrptimeFormato(v.s, formati_data[j]).raises
                 /\ \A h \in 1..(j - 1) : StrptimeFormato(v.s, formati_data[h]).raises
    IN  StrptimeFormato(v.s, formati_data[k])

Presente(v) == v.t = "str" /\ v.s # << >>

Ammessa == vpc = "done" /\ validita = "valid"

PersonaleNonNegativo(v) ==
    \/ v.t = "int" /\ v.n >= 0
    \/ v.t = "str" /\ ~PyInt(StrStrip(v.s)).raises

CostoNonNegativo(v) ==
    \/ v.t = "float" /\ v.n >= 0
    \/ v.t = "str" /\ ~PyFloat(SenzaEuroSpazi(v.s)).raises

AmmessaPersonaleCostoNonNegativi ==
    Ammessa =>
        \A k \in 1..Len(missioni) :
            /\ PersonaleNonNegativo(missioni[k].personale_totale)
            /\ CostoNonNegativo(missioni[k].costo_totale)

\* with ISO dates only the dates of an admitted record are in order
DateIsoCoerenti ==
    Ammessa /\ formati_data = << "%Y-%m-%d" >> =>
        \A k \in 1..Len(missioni) :
            ~DopoDi(Significato(missioni[k].data_inizio), Significato(missioni[k].data_fine))

\* a cost that a scraper has already turned into a float is never admitted
CostoFloatMaiAmmesso ==
    Ammessa => \A k \in 1..Len(missioni) : missioni[k].costo_totale.t = "str"

\* 4 April to 5 March, written day first, is admitted
AprileMarzoAmmessa ==
    /\ Ammessa
    /\ missioni[1].data_inizio = Str(<< "0", "4", "/", "0", "4", "/", "2", "0", "2", "3" >>)
    /\ missioni[1].data_fine = Str(<< "0", "5", "/", "0", "3", "/", "2", "0", "2", "3" >>)

-----------------------------------------------------------------------------
(* Properties of the archive fallback, the retry loop and its delays *)

\* the step of the running call that receives the answer of the archive
WaybackStep == fpc = "wayback" /\ fpc' = "return"

ArchiveNon200Fails ==
    /\ fpc = "return"
    /\ LastReq(reqs).req = "archive"
    /\ ~Is200(LastReq(reqs))
    /\ result = None
    /\ ~wrote

\* 2^n
RECURSIVE Pow2(_)
Pow2(n) == IF n = 0 THEN 1 ELSE 2 * Pow2(n - 1)

\* C26: the n-th delay between two direct attempts of a call (n from 0) is
\* retry_delay * 2^n or more.
C26_DelayDoubles ==
    \A n \in 0..(max_retries - 2) :
        n + 1 <= Len(slept) => slept[n + 1] >= retry_delay * Pow2(n)

\* the delays of _download_with_retry grow by retry_delay each time
DelayGrowsLinearly ==
    \A k \in 1..Len(slept) : slept[k] = retry_delay * k

\* with four attempts configured, the third delay has been slept
ThirdDelaySlept == max_retries = default_max_retries + 1 /\ Len(slept) = default_max_retries /\ fpc = "get"

\* with the default of three attempts the two delays between attempts double
DefaultDelaysDouble ==
    max_retries = default_max_retries =>
        \A n \in 0..(max_retries - 2) :
            n + 1 <= Len(slept) => slept[n + 1] = retry_delay * Pow2(n)

\* the running call is inside _download_with_retry
Running == fpc \in {"get", "sleep", "wayback"}

\* how far the running call is from its return: three steps at most for
\* every pass of the loop that is left
Rank ==
    CASE fpc = "get" -> 3 * (max_retries - attempt) + 2
      [] fpc = "sleep" -> 3 * (max_retries - attempt) + 1
      [] fpc = "wayback" -> 1
      [] OTHER -> 0

\* the order of the requests of the running call
RequestsInOrder ==
    /\ Len(DirectReqs) <= max_retries
    /\ Len(ArchiveReqs) <= 1
    /\ \A i \in 1..Len(reqs) :
          /\ (reqs[i].req = "direct" /\ Is200(reqs[i])) => i = Len(reqs)
          /\ reqs[i].req = "archive" =>
                /\ i = max_retries + 1
                /\ i = Len(reqs)
                /\ \A j \in 1..(i - 1) : reqs[j].req = "direct" /\ ~Is200(reqs[j])

\* C28: every call of _download_with_retry ends, whatever the answers: each
\* of its steps brings it nearer to its return; it makes at most max_retries
\* direct requests and at most one archive request, none after a direct
\* 200, and the archive request only after the last direct attempt failed.
C28_CallEndsWithinBudget ==
    /\ [](RequestsInOrder /\ Rank >= 0 /\ (Running => attempt < max_retries))
    /\ [][Running => Rank' < Rank]_vars

C28_Witness ==
    /\ fpc = "return"
    /\ max_retries = default_max_retries + 1
    /\ Len(DirectReqs) = max_retries
    /\ Len(ArchiveReqs) = 1
    /\ DirectReqs[1].kind = "RequestError"
    /\ DirectReqs[max_retries].status = 410
    /\ LastReq(reqs).kind = "RequestError"

-----------------------------------------------------------------------------
(* Properties of the passes of _deduplica_dati *)

\* dati_dict after the first k records of the normalised input
DictAfter(k) == DeduplicaFrom([raised |-> FALSE, dict |-> << >>], SubSeq(Normalizzati, 1, k), 1)

\* C25: a pass of _deduplica_dati that meets a record whose id is stored
\* leaves the stored record in place when the two timestamps are equal, and
\* puts the incoming record in its place only when its timestamp is
\* strictly later than the stored one.
C25_TieKeepsStored ==
    mpc = "deduplicati" =>
        \A k \in 0..(Len(Normalizzati) - 1) :
            LET acc == DictAfter(k)
                dato == Normalizzati[k + 1]
                j == IndexOfId(acc.dict, dato.id)
                next == DictAfter(k + 1)
            IN  j # 0 =>
                  /\ Len(next.dict) = Len(acc.dict)
                  /\ \A h \in 1..Len(acc.dict) : h # j => next.dict[h] = acc.dict[h]
                  /\ (Dated(dato) /\ Dated(acc.dict[j]) /\ Day(dato) = Day(acc.dict[j]))
                        => next.dict[j] = acc.dict[j]
                  /\ next.dict[j] # acc.dict[j]
                        => /\ next.dict[j] = dato
                           /\ Dated(dato) /\ Dated(acc.dict[j])
                           /\ Day(dato) > Day(acc.dict[j])

C25_Witness ==
    /\ mpc = "deduplicati"
    /\ Len(dati_in) = 2
    /\ dati_in[1].data_estrazione = "2023-06-01"
    /\ dati_in[2].data_estrazione = "2023-06-01"
    /\ dati_in[1].note = "a"
    /\ dati_in[2].note = "b"
    /\ GeneraIdUnivoco(dati_in[1]) = GeneraIdUnivoco(dati_in[2])
    /\ dati = << NormalizzaDato(dati_in[1]) >>

Ids(ds) == { ds[i].id : i \in 1..Len(ds) }

\* C29: the ids of the list that _deduplica_dati returns are the ids of the
\* list it was given, and every record it returns is one of the records it
\* was given, as it was given.
C29_IdentitiesPreserved ==
    mpc = "deduplicati" =>
        /\ Ids(dati) = Ids(Normalizzati)
        /\ \A k \in 1..Len(dati) : dati[k] \in Range(Normalizzati)

C29_Witness ==
    /\ mpc = "deduplicati"
    /\ Len(dati_in) = 3
    /\ Len(dati) = 2
    /\ dati_in[1].fonte = "eeas"
    /\ dati_in[2].fonte = "difesa"
    /\ dati_in[3].fonte = "eeas"
    /\ dati_in[3].data_estrazione = "2023-06-01"
    /\ dati_in[1].data_estrazione = "2023-01-01"
    /\ dati = << NormalizzaDato(dati_in[3]), NormalizzaDato(dati_in[2]) >>

-----------------------------------------------------------------------------
(* Properties of the whole pass of unisci_dati *)

\* the row k of the worksheet carries the mapped fields of scraped row i
Carries(k, i) == \A col \in DOMAIN mappa : ws[k][mappa[col]].value = df_scraped[i][col]

OgniRecordInCodaSuDict ==
    upc = "uniti" /\ celle = "dict" =>
        /\ Len(ws) = Len(df_originale) + Len(df_scraped)
        /\ \A i \in 1..Len(df_scraped) : Carries(Len(df_originale) + i, i)

\* two missions in Mali were written to the one master row of Mali, and
\* the first of them is in no row
DueRecordUnaRiga ==
    /\ upc = "uniti"
    /\ celle = "valori"
    /\ Len(df_scraped) = 2
    /\ df_scraped[1].nome_missione = Str(<< "E", "U", "T", "M", " ", "M", "a", "l", "i" >>)
    /\ df_scraped[2].nome_missione = Str(<< "U", "N", "I", "F", "I", "L" >>)
    /\ duplicati[1] = duplicati[2]
    /\ duplicati[1] # 0
    /\ \A k \in 1..Len(ws) : ~Carries(k, 1)

-----------------------------------------------------------------------------
(* Properties of collect and of the loops over the entries of a seed       *)

\* the entry that a call of _download_with_retry was made for
Tentato(t) == seeds[t[1]].links[t[2]]

\* collect is on a seed whose request or parsing fails
SuSeedFallito == cpc = "seed" /\ si <= Len(seeds) /\ seeds[si].esito # "ok"

\* C23: a seed whose request raises, whose status is not 200 or whose
\* content cannot be parsed gives no document and no download, no exception
\* leaves collect, and collect goes on to the next seed, so that at the end
\* every sitemap and every index page has been requested, in order.
C23_FailedSeedIsSkipped ==
    /\ [](cpc # "raised")
    /\ [](cpc = "done" => visti = [i \in 1..Len(seeds) |-> i])
    /\ [][SuSeedFallito =>
            /\ cpc' = "seed"
            /\ si' = si + 1
            /\ all_metadata' = all_metadata
            /\ tentati' = tentati
            /\ store' = store
            /\ nfetch' = nfetch]_vars

\* a malformed sitemap, then a sitemap whose document is saved, then an
\* index page whose request fails: all three were processed
C23_Witness ==
    /\ cpc = "done"
    /\ Len(seeds) = 3
    /\ seeds[1].esito = "ParseError"
    /\ seeds[2].esito = "ok"
    /\ seeds[3].esito = "RequestError"
    /\ visti = << 1, 2, 3 >>
    /\ Len(all_metadata) = 1
    /\ errori = << 1, 3 >>

\* the entries of seed s that are documents
DocumentiDi(s) ==
    { l \in 1..Len(seeds[s].links) :
         /\ IsUrl(seeds[s].links[l])
         /\ Lower(seeds[s].links[l].suffix) \in allowed_extensions }

\* every document of seed s was passed to _download_with_retry
TuttiTentati(s) == \A l \in DocumentiDi(s) : \E t \in 1..Len(tentati) : tentati[t] = << s, l >>

\* C24: in a seed that was parsed, every discovered document is attempted,
\* whatever happened to the entries before it.
C24_FailureLeavesRestOfSeed ==
    cpc = "done" => \A s \in 1..Len(seeds) : seeds[s].esito = "ok" => TuttiTentati(s)

\* in a seed all of whose entries are strings, the documents are all
\* attempted: the failures of a download (network error, status, archive)
\* end inside _download_with_retry
FallimentiDiScaricoIsolati ==
    cpc = "done" =>
       \A s \in 1..Len(seeds) :
          (seeds[s].esito = "ok" /\ \A l \in 1..Len(seeds[s].links) : IsUrl(seeds[s].links[l]))
             => TuttiTentati(s)

\* a first document whose downloads all fail, and the second document of the
\* same seed is attempted all the same
SecondoTentatoDopoFallimento ==
    /\ cpc = "done"
    /\ seeds[1].links = << Documento1, Documento2 >>
    /\ tentati = << << 1, 1 >>, << 1, 2 >> >>
    /\ all_metadata = << >>

\* an empty loc before a document: the seed ends and the document is never
\* attempted
LocVuotoFermaIlSeed ==
    /\ cpc = "done"
    /\ seeds[1].links = << LocVuoto, Documento1 >>
    /\ tentati = << >>
    /\ errori = << 1 >>

\* the extension of the entry is outside the allow-list
AltraEstensione(link) == IsUrl(link) /\ link.suffix \notin { ".pdf", ".PDF", ".doc", ".DOC", ".docx", ".DOCX" }

\* the loop is on an entry that is no document
SuAltraEstensione ==
    /\ cpc = "links" /\ fpc = "idle"
    /\ li <= Len(seeds[si].links)
    /\ AltraEstensione(seeds[si].links[li])

\* C27: _download_with_retry, which makes the direct requests and the
\* archive request, is only ever called for entries whose extension is in
\* the allow-list; on any other entry the loop moves on and makes no
\* request, saves nothing and logs no error.
C27_OnlyAllowedExtensionsRequested ==
    /\ [](\A t \in 1..Len(tentati) : ~AltraEstensione(Tentato(tentati[t])))
    /\ [](fpc # "idle" => ~AltraEstensione(url))
    /\ [][SuAltraEstensione =>
            /\ li' = li + 1
            /\ UNCHANGED <<cpc, si, fpc, url, reqs, nfetch, store, tentati, errori, metadata_list, all_metadata>>]_vars

\* a page was passed over and the document after it was requested and saved
C27_Witness ==
    /\ cpc = "done"
    /\ seeds[1].links = << Pagina, Documento1 >>
    /\ tentati = << << 1, 2 >> >>
    /\ errori = << >>
    /\ Len(all_metadata) = 1

====
